---- MODULE Spec2Model ----
(***************************************************************************)
(* Open-Reality web runtime: the per-frame simulation core                 *)
(* (openreality-web: animation.rs, transform.rs, skinning.rs, app.rs).     *)
(*                                                                         *)
(* Numbers.  f32/f64 quantities are modelled on an integer grid: keyframe  *)
(* times, clock values and deltas are whole ticks, vector and quaternion   *)
(* components and matrix entries are integers.  An interpolation factor is *)
(* an exact fraction <<num, den>> in lowest terms.  Vec<T> is a sequence;  *)
(* At(s, i) reads it with the source's 0-based index.  Option<T> is <<>>   *)
(* (None) or <<v>> (Some(v)).                                              *)
(***************************************************************************)
EXTENDS Integers, Sequences, FiniteSets, TLC

VARIABLES
    \* ---- keyframe search harness (animation.rs find_keyframe_index) ----
    kfTimes,      \* the times slice handed to find_keyframe_index
    kfTime,       \* the query time
    kfResult,     \* <<"pending">> before the call, <<"returned", r>> after
    \* ---- the application (app.rs App, scene.rs LoadedScene) ----
    entities,     \* scene.entities
    animations,   \* scene.animations
    skeletons,    \* scene.skeletons
    input,        \* App.input (the per-frame mouse deltas)
    last_time,    \* App.last_time
    pc,           \* position inside App::frame: "ready" (constructed),
                  \* "animated", "resolved", "returned" (the frame is
                  \* over), or "anim_panic" / "skin_panic" (a panic
                  \* unwound the frame and the runtime is dead)
    dt,           \* the delta the running / last frame computed
    pre,          \* scene.animations and scene.entities as the frame began
    writes,       \* the transform writes update_animations made this frame
    \* ---- particle emitters (particles.rs) ----
    pools,        \* one ParticlePool per emitter
    configs,      \* one ParticleConfig per emitter, owned by the host
    RAND_STATE,   \* the global xorshift state, a u32 as <<high, low>> halves
    solo,         \* per emitter: the pool and generator state it would have
                  \* if only its own update calls had run
    tick,         \* the last ParticlePool::update call: its arguments and
                  \* the pool after each of its steps
    ticks,        \* number of update calls so far
    frame_delta,  \* the delta of the host's frames when it runs at a fixed rate
    \* ---- log buffer (openreality-cli state.rs LogBuffer) ----
    lines,        \* LogBuffer.lines
    scroll_offset,
    auto_scroll,
    max_lines,
    pushed,       \* every line pushed since construction or the last clear
    \* ---- quaternion interpolation harness (animation.rs slerp_quat) ----
    slerpA,       \* the arguments a, b, t
    slerpB,
    slerpT,
    slerpResult,  \* <<"pending">> before the call, <<"returned", q>> after
    \* ---- handle stores (openreality-wgpu handle.rs) ----
    NEXT_HANDLE,  \* the process-wide AtomicU64
    stores,       \* one HandleStore per thread: its items, handle -> item
    calls,        \* per thread: the insert it is inside, if any
    lookup,       \* the last get or remove: its handle and what it returned
    issued,       \* every handle insert has returned, in order of return
    removed       \* every handle remove or clear has taken out of a store

kfVars == <<kfTimes, kfTime, kfResult>>
appVars == <<entities, animations, skeletons, input, last_time, pc, dt, pre, writes>>
poolVars == <<pools, configs, RAND_STATE, solo, tick, ticks, frame_delta>>
logVars == <<lines, scroll_offset, auto_scroll, max_lines, pushed>>
slerpVars == <<slerpA, slerpB, slerpT, slerpResult>>
handleVars == <<NEXT_HANDLE, stores, calls, lookup, issued, removed>>
vars == <<kfTimes, kfTime, kfResult,
          entities, animations, skeletons, input, last_time, pc, dt, pre, writes,
          pools, configs, RAND_STATE, solo, tick, ticks, frame_delta,
          lines, scroll_offset, auto_scroll, max_lines, pushed,
          slerpA, slerpB, slerpT, slerpResult,
          NEXT_HANDLE, stores, calls, lookup, issued, removed>>

\* ------------------------------------------------------------------ bounds
\* longest keyframe timeline of the search harness
MaxKeys == 3
\* largest keyframe time of the search harness (query times run one beyond)
MaxKeyTime == 3
\* number of entities of the enumerated scenes
NumEntities == 3
\* last frame timestamp the host hands to App::frame
MaxTime == 4
\* largest gap between two consecutive frame timestamps
MaxStep == 2

\* ------------------------------------------------------------- primitives
None == <<>>
Some(v) == <<v>>
IsSome(o) == Len(o) = 1
Unwrap(o) == o[1]

At(s, i) == s[i + 1]

Abs(x) == IF x < 0 THEN -x ELSE x

Min(a, b) == IF a <= b THEN a ELSE b

RECURSIVE Gcd(_, _)
Gcd(a, b) == IF b = 0 THEN a ELSE Gcd(b, a % b)

\* the fraction n/d (d # 0) in lowest terms with a positive denominator
Frac(n, d) ==
    LET g == Gcd(Abs(n), Abs(d))
        s == IF d < 0 THEN -1 ELSE 1
    IN  <<(s * n) \div g, (s * d) \div g>>

FZero == <<0, 1>>

\* Rust's float remainder: the result takes the sign of the dividend
Fmod(a, b) == IF a >= 0 THEN a % Abs(b) ELSE -((-a) % Abs(b))

\* ------------------------------------------------- find_keyframe_index
\* 1e-8 seconds is below one tick of the grid: two grid times are closer
\* than it only when they are equal
DegenerateEps == 1

\* mutant: the two halves of the binary search are exchanged
RECURSIVE BinarySearchSwapped(_, _, _, _)
BinarySearchSwapped(times, time, lo, hi) ==
    IF lo < hi - 1
    THEN LET mid == (lo + hi) \div 2
         IN  IF At(times, mid) <= time
             THEN BinarySearchSwapped(times, time, lo, mid)
             ELSE BinarySearchSwapped(times, time, mid, hi)
    ELSE <<lo, hi>>

\* the one element of a singleton: The({e(v) : v \in {x}}) is e(x) with x
\* worked out once, however often e mentions it
The(s) == CHOOSE x \in s : TRUE

\* mutant: a key equal to the query time goes to the upper half
RECURSIVE BinarySearchStrict(_, _, _, _)
BinarySearchStrict(times, time, lo, hi) ==
    IF lo < hi - 1
    THEN LET mid == (lo + hi) \div 2
         IN  IF At(times, mid) < time
             THEN BinarySearchStrict(times, time, mid, hi)
             ELSE BinarySearchStrict(times, time, lo, mid)
    ELSE <<lo, hi>>

RECURSIVE BinarySearch(_, _, _, _)
BinarySearch(times, time, lo, hi) ==
    IF lo < hi - 1
    THEN LET mid == (lo + hi) \div 2
         IN  IF At(times, mid) <= time
             THEN BinarySearch(times, time, mid, hi)
             ELSE BinarySearch(times, time, lo, mid)
    ELSE <<lo, hi>>

\* the fraction of the interval [t0, t1] that lies before time
IntervalFactor(time, t0, t1) ==
    IF Abs(t1 - t0) < DegenerateEps THEN FZero ELSE Frac(time - t0, t1 - t0)

\* mutant: the clamp at the last keyframe is missing, so a late query time
\* falls through to the search and extrapolates
find_keyframe_index_no_end_clamp(times, time) ==
    IF Len(times) = 0 THEN None
    ELSE IF Len(times) = 1 THEN Some(<<0, 0, FZero>>)
    ELSE IF time <= At(times, 0) THEN Some(<<0, 0, FZero>>)
    ELSE LET b == BinarySearch(times, time, 0, Len(times) - 1)
         IN  Some(<<b[1], b[2],
                    IntervalFactor(time, At(times, b[1]), At(times, b[2]))>>)

\* mutant: the clamp at the first keyframe is missing, so an early query
\* time falls through to the search
find_keyframe_index_no_start_clamp(times, time) ==
    IF Len(times) = 0 THEN None
    ELSE IF Len(times) = 1 THEN Some(<<0, 0, FZero>>)
    ELSE IF time >= At(times, Len(times) - 1)
         THEN LET last == Len(times) - 1 IN Some(<<last, last, FZero>>)
    ELSE LET b == BinarySearch(times, time, 0, Len(times) - 1)
         IN  Some(<<b[1], b[2],
                    IntervalFactor(time, At(times, b[1]), At(times, b[2]))>>)

find_keyframe_index(times, time) ==
    IF Len(times) = 0 THEN None
    ELSE IF Len(times) = 1 THEN Some(<<0, 0, FZero>>)
    ELSE IF time <= At(times, 0) THEN Some(<<0, 0, FZero>>)
    ELSE IF time >= At(times, Len(times) - 1)
         THEN LET last == Len(times) - 1 IN Some(<<last, last, FZero>>)
    ELSE The({
         LET lo == b[1]
             hi == b[2]
             t0 == At(times, lo)
             t1 == At(times, hi)
             factor == IntervalFactor(time, t0, t1)
         IN  Some(<<lo, hi, factor>>)
         : b \in {BinarySearch(times, time, 0, Len(times) - 1)}})

\* ------------------------------------------------ keyframe search harness
RECURSIVE SeqsUpTo(_, _)
SeqsUpTo(S, n) ==
    IF n = 0 THEN {<<>>}
    ELSE LET shorter == SeqsUpTo(S, n - 1)
         IN  shorter \cup {Append(s, x) : s \in {q \in shorter : Len(q) = n - 1}, x \in S}

KeyTimes == 0 .. MaxKeyTime
QueryTimes == -1 .. (MaxKeyTime + 1)

KfIdle ==
    /\ kfTimes = <<>>
    /\ kfTime = 0
    /\ kfResult = <<"pending">>

AppIdle ==
    /\ entities = <<>>
    /\ animations = <<>>
    /\ skeletons = <<>>
    /\ input = [mouse_dx |-> 0, mouse_dy |-> 0]
    /\ last_time = 0
    /\ pc = "ready"
    /\ dt = 0
    /\ pre = [animations |-> <<>>, entities |-> <<>>]
    /\ writes = <<>>

\* no emitter exists
PoolIdle ==
    /\ pools = <<>>
    /\ configs = <<>>
    /\ RAND_STATE = <<0, 12345>>
    /\ solo = <<>>
    /\ tick = <<>>
    /\ ticks = 0
    /\ frame_delta = 0

\* an empty log buffer nobody uses
LogIdle ==
    /\ lines = <<>>
    /\ scroll_offset = 0
    /\ auto_scroll = TRUE
    /\ max_lines = 1
    /\ pushed = <<>>

HandleIdle ==
    /\ NEXT_HANDLE = 1
    /\ stores = <<>>
    /\ calls = <<>>
    /\ lookup = <<>>
    /\ issued = <<>>
    /\ removed = {}

SlerpIdle ==
    /\ slerpA = <<>>
    /\ slerpB = <<>>
    /\ slerpT = <<0, 1>>
    /\ slerpResult = <<"pending">>

KfInit ==
    /\ kfTimes \in SeqsUpTo(KeyTimes, MaxKeys)
    /\ kfTime \in QueryTimes
    /\ kfResult = <<"pending">>
    /\ AppIdle
    /\ PoolIdle /\ LogIdle /\ SlerpIdle /\ HandleIdle

\* one call find_keyframe_index(&times, time)
FindKeyframe ==
    /\ kfResult = <<"pending">>
    /\ kfResult' = <<"returned", find_keyframe_index(kfTimes, kfTime)>>
    /\ UNCHANGED <<kfTimes, kfTime>>
    /\ UNCHANGED <<appVars, poolVars, logVars, slerpVars, handleVars>>

KfNext == FindKeyframe

KfSpec == KfInit /\ [][KfNext]_vars

\* ---------------------------------------------- keyframe search: claims
StrictlyIncreasing(times) ==
    \A i \in 1 .. (Len(times) - 1) : times[i] < times[i + 1]

KfReturned == kfResult[1] = "returned"
KfValue == kfResult[2]

\* a fraction lies in [0, 1]
FInUnit(f) == 0 <= f[1] /\ f[1] <= f[2]

\* C1: for a strictly increasing, non-empty timeline T and any query time t
\* the search returns Some((i0, i1, f)) with i0 <= i1 < len(T) and
\* 0 <= f <= 1; T[i0] <= t <= T[i1] when t is inside [T[first], T[last]],
\* and both indices are the nearer endpoint when t is outside it.
C1_IntervalBrackets ==
    (KfReturned /\ Len(kfTimes) >= 1 /\ StrictlyIncreasing(kfTimes)) =>
        /\ IsSome(KfValue)
        /\ LET r == Unwrap(KfValue)
               i0 == r[1]
               i1 == r[2]
               f == r[3]
               first == At(kfTimes, 0)
               last == At(kfTimes, Len(kfTimes) - 1)
           IN  /\ 0 <= i0 /\ i0 <= i1 /\ i1 < Len(kfTimes)
               /\ FInUnit(f)
               /\ (first <= kfTime /\ kfTime <= last) =>
                      (At(kfTimes, i0) <= kfTime /\ kfTime <= At(kfTimes, i1))
               /\ kfTime < first => (i0 = 0 /\ i1 = 0)
               /\ kfTime > last =>
                      (i0 = Len(kfTimes) - 1 /\ i1 = Len(kfTimes) - 1)

\* C1 witness: a three-key timeline queried strictly between two keys
\* returned a proper interval
C1_Witness ==
    /\ KfReturned
    /\ Len(kfTimes) = 3
    /\ StrictlyIncreasing(kfTimes)
    /\ At(kfTimes, 1) < kfTime /\ kfTime < At(kfTimes, 2)
    /\ IsSome(KfValue)
    /\ Unwrap(KfValue)[1] = 1 /\ Unwrap(KfValue)[2] = 2
    /\ Unwrap(KfValue)[3] = <<1, 2>>

\* C2: None for an empty timeline; (0, 0, 0) for a single keyframe or a
\* query at or before the first key; (last, last, 0) for a query at or
\* after the last key.  Timelines are strictly increasing (the channel
\* invariant of the data model).
C2_ClampedEnds ==
    (KfReturned /\ StrictlyIncreasing(kfTimes)) =>
        /\ Len(kfTimes) = 0 => KfValue = None
        /\ Len(kfTimes) = 1 => KfValue = Some(<<0, 0, FZero>>)
        /\ (Len(kfTimes) >= 1 /\ kfTime <= At(kfTimes, 0)) =>
               KfValue = Some(<<0, 0, FZero>>)
        /\ (Len(kfTimes) >= 1 /\ kfTime >= At(kfTimes, Len(kfTimes) - 1)) =>
               KfValue = Some(<<Len(kfTimes) - 1, Len(kfTimes) - 1, FZero>>)

\* C2 witness: a query after the last of several keys was clamped to it
C2_Witness ==
    /\ KfReturned
    /\ Len(kfTimes) >= 2
    /\ StrictlyIncreasing(kfTimes)
    /\ kfTime > At(kfTimes, Len(kfTimes) - 1)
    /\ KfValue = Some(<<Len(kfTimes) - 1, Len(kfTimes) - 1, FZero>>)

\* ------------------------------------------------------- glam: DVec3, DQuat
\* a vector is <<x, y, z>>; a quaternion is the record [x, y, z, w]
Vec3(x, y, z) == <<x, y, z>>
VecAdd(a, b) == <<a[1] + b[1], a[2] + b[2], a[3] + b[3]>>
VecSub(a, b) == <<a[1] - b[1], a[2] - b[2], a[3] - b[3]>>

\* v * t for a fraction t, each component rounded down to the grid
VecScale(v, t) ==
    <<(v[1] * t[1]) \div t[2], (v[2] * t[1]) \div t[2], (v[3] * t[1]) \div t[2]>>

from_xyzw(x, y, z, w) == [x |-> x, y |-> y, z |-> z, w |-> w]

QuatIdentity == from_xyzw(0, 0, 0, 1)

\* DQuat::normalize on the grid: a unit quaternion is its own normalisation;
\* the grid holds no other length, so any other input is left as it is
normalize(q) == q

\* ----------------------------------------------------------- glam: Mat4
\* a matrix is <<row 1, .., row 4>>, m[i][j] the entry of row i, column j
Mat4Identity ==
    <<<<1, 0, 0, 0>>, <<0, 1, 0, 0>>, <<0, 0, 1, 0>>, <<0, 0, 0, 1>>>>

MatEntry(a, b, i, j) ==
    a[i][1] * b[1][j] + a[i][2] * b[2][j] + a[i][3] * b[3][j] + a[i][4] * b[4][j]

MatRow(a, b, i) ==
    <<MatEntry(a, b, i, 1), MatEntry(a, b, i, 2),
      MatEntry(a, b, i, 3), MatEntry(a, b, i, 4)>>

\* Mat4 * Mat4
MatMul(a, b) == <<MatRow(a, b, 1), MatRow(a, b, 2), MatRow(a, b, 3), MatRow(a, b, 4)>>

\* Mat4::from_scale_rotation_translation: the columns are the rotation's
\* axes (glam's quat_to_axes), each scaled, and the translation
from_scale_rotation_translation(scl, rot, pos) ==
    LET x2 == rot.x + rot.x
        y2 == rot.y + rot.y
        z2 == rot.z + rot.z
        xx == rot.x * x2
        xy == rot.x * y2
        xz == rot.x * z2
        yy == rot.y * y2
        yz == rot.y * z2
        zz == rot.z * z2
        wx == rot.w * x2
        wy == rot.w * y2
        wz == rot.w * z2
        sx == scl[1]
        sy == scl[2]
        sz == scl[3]
    IN  <<<<(1 - (yy + zz)) * sx, (xy - wz) * sy, (xz + wy) * sz, pos[1]>>,
          <<(xy + wz) * sx, (1 - (xx + zz)) * sy, (yz - wx) * sz, pos[2]>>,
          <<(xz - wy) * sx, (yz + wx) * sy, (1 - (xx + yy)) * sz, pos[3]>>,
          <<0, 0, 0, 1>>>>

\* Mat4::inverse by cofactors.  The enumerated scenes hold rotations by half
\* turns, reflections and translations only, so the determinant is 1 or -1
\* and the quotient by it is exact.
Skip(k, i) == IF k < i THEN k ELSE k + 1

Minor(m, i, j) ==
    LET e(r, c) == m[Skip(r, i)][Skip(c, j)]
    IN  e(1, 1) * (e(2, 2) * e(3, 3) - e(2, 3) * e(3, 2))
        - e(1, 2) * (e(2, 1) * e(3, 3) - e(2, 3) * e(3, 1))
        + e(1, 3) * (e(2, 1) * e(3, 2) - e(2, 2) * e(3, 1))

Cofactor(m, i, j) == IF (i + j) % 2 = 0 THEN Minor(m, i, j) ELSE -Minor(m, i, j)

Determinant(m) ==
    m[1][1] * Cofactor(m, 1, 1) + m[1][2] * Cofactor(m, 1, 2)
    + m[1][3] * Cofactor(m, 1, 3) + m[1][4] * Cofactor(m, 1, 4)

InverseRow(m, d, i) ==
    <<Cofactor(m, 1, i) \div d, Cofactor(m, 2, i) \div d,
      Cofactor(m, 3, i) \div d, Cofactor(m, 4, i) \div d>>

Inverse(m) ==
    LET d == Determinant(m)
    IN  <<InverseRow(m, d, 1), InverseRow(m, d, 2),
          InverseRow(m, d, 3), InverseRow(m, d, 4)>>

\* ------------------------------------------------- animation.rs: sampling
\* values[i] exists
InBounds(values, i) == i < Len(values)

\* get_vec3 indexes values[3*index .. 3*index + 2]; a missing element panics
get_vec3_panics(values, index) == ~InBounds(values, index * 3 + 2)

get_vec3(values, index) ==
    LET i == index * 3
    IN  Vec3(At(values, i), At(values, i + 1), At(values, i + 2))

\* get_quat indexes values[4*index .. 4*index + 3]; a missing element panics
get_quat_panics(values, index) == ~InBounds(values, index * 4 + 3)

\* the buffer stores w, x, y, z
get_quat(values, index) ==
    LET i == index * 4
    IN  from_xyzw(At(values, i + 1), At(values, i + 2), At(values, i + 3), At(values, i))

lerp_vec3(a, b, t) == VecAdd(a, VecScale(VecSub(b, a), t))

\* dot > 0.9995, on the grid where dot is a whole number
NearlyIdentical(dot) == dot * 10000 > 9995

slerp_quat(a, b, t) ==
    LET dot0 == a.x * b.x + a.y * b.y + a.z * b.z + a.w * b.w
        dot == IF dot0 < 0 THEN -dot0 ELSE dot0
        b1 == IF dot0 < 0 THEN from_xyzw(-b.x, -b.y, -b.z, -b.w) ELSE b
    IN  IF NearlyIdentical(dot)
        THEN normalize(from_xyzw(a.x + ((b1.x - a.x) * t[1]) \div t[2],
                                 a.y + ((b1.y - a.y) * t[1]) \div t[2],
                                 a.z + ((b1.z - a.z) * t[1]) \div t[2],
                                 a.w + ((b1.w - a.w) * t[1]) \div t[2]))
        \* the spherical branch: exact at t = 0 (weights 1 and 0); the grid
        \* holds no rotation strictly between two keys, so a factor inside
        \* (0, 1) yields the nearer key
        ELSE IF 2 * t[1] < t[2] THEN a ELSE b1

\* the match on channel.interpolation
Interpolate3(interpolation, v0, v1, t) ==
    IF interpolation = "Step" THEN v0 ELSE lerp_vec3(v0, v1, t)

InterpolateQ(interpolation, q0, q1, t) ==
    IF interpolation = "Step" THEN q0 ELSE slerp_quat(q0, q1, t)

\* mutant: the value is stored but the dirty flag is not raised
WriteTransformNoDirty(ents, target_idx, property, value) ==
    LET e == At(ents, target_idx)
        tr == e.transform
        tr1 == IF property = "Position" THEN [tr EXCEPT !.position = value]
               ELSE IF property = "Rotation" THEN [tr EXCEPT !.rotation = value]
               ELSE [tr EXCEPT !.scale = value]
    IN  [ents EXCEPT ![target_idx + 1] = [e EXCEPT !.transform = tr1]]

\* scene.entities[target_idx].transform.<property> = value; .dirty = true
WriteTransform(ents, target_idx, property, value) ==
    LET e == At(ents, target_idx)
        tr == e.transform
        tr1 == IF property = "Position" THEN [tr EXCEPT !.position = value]
               ELSE IF property = "Rotation" THEN [tr EXCEPT !.rotation = value]
               ELSE [tr EXCEPT !.scale = value]
    IN  [ents EXCEPT ![target_idx + 1] =
             [e EXCEPT !.transform = [tr1 EXCEPT !.dirty = TRUE]]]

\* what one pass of the channel loop's body does: "skip" (a continue),
\* "panic" (an index out of bounds in get_vec3 / get_quat, before any write
\* of this channel) or "write" with the interpolated value
ChannelOutcome(ents, channel, time) ==
    The({
    LET target_idx == channel.target_entity_index
    IN  IF target_idx >= Len(ents) THEN [kind |-> "skip"]
        ELSE IF ~IsSome(key_idx) THEN [kind |-> "skip"]
        ELSE LET i0 == Unwrap(key_idx)[1]
                 i1 == Unwrap(key_idx)[2]
                 t == Unwrap(key_idx)[3]
             IN  IF channel.target_property = "Rotation"
                 THEN IF get_quat_panics(channel.values, i0)
                         \/ get_quat_panics(channel.values, i1)
                      THEN [kind |-> "panic"]
                      ELSE [kind |-> "write",
                            value |-> InterpolateQ(channel.interpolation,
                                         get_quat(channel.values, i0),
                                         get_quat(channel.values, i1), t)]
                 ELSE IF get_vec3_panics(channel.values, i0)
                         \/ get_vec3_panics(channel.values, i1)
                      THEN [kind |-> "panic"]
                      ELSE [kind |-> "write",
                            value |-> Interpolate3(channel.interpolation,
                                         get_vec3(channel.values, i0),
                                         get_vec3(channel.values, i1), t)]
    : key_idx \in {find_keyframe_index(channel.times, time)}})

\* the result of the loops: the entities, the writes made so far (ghost:
\* which animation state and channel wrote which entity's property) and
\* whether a panic unwound the call
LoopState(ents, log, panicked) ==
    [entities |-> ents, writes |-> log, panicked |-> panicked]

\* mutant: an out-of-range target ends the channel loop (break for continue)
RECURSIVE ApplyChannelsBreak(_, _, _, _, _, _)
ApplyChannelsBreak(ents, log, channels, k, time, a) ==
    IF k >= Len(channels) THEN LoopState(ents, log, FALSE)
    ELSE LET channel == At(channels, k)
             out == ChannelOutcome(ents, channel, time)
         IN  IF channel.target_entity_index >= Len(ents)
             THEN LoopState(ents, log, FALSE)
             ELSE IF out.kind = "skip"
             THEN ApplyChannelsBreak(ents, log, channels, k + 1, time, a)
             ELSE IF out.kind = "panic" THEN LoopState(ents, log, TRUE)
             ELSE ApplyChannelsBreak(
                      WriteTransform(ents, channel.target_entity_index,
                                     channel.target_property, out.value),
                      Append(log, [anim |-> a, channel |-> k,
                                   entity |-> channel.target_entity_index,
                                   property |-> channel.target_property]),
                      channels, k + 1, time, a)

\* for channel in &clip.channels { .. }, from channel k on
RECURSIVE ApplyChannels(_, _, _, _, _, _)
ApplyChannels(ents, log, channels, k, time, a) ==
    IF k >= Len(channels) THEN LoopState(ents, log, FALSE)
    ELSE LET channel == At(channels, k)
         IN  The({
             IF out.kind = "skip"
             THEN ApplyChannels(ents, log, channels, k + 1, time, a)
             ELSE IF out.kind = "panic" THEN LoopState(ents, log, TRUE)
             ELSE The({
                  ApplyChannels(
                      written,
                      Append(log, [anim |-> a, channel |-> k,
                                   entity |-> channel.target_entity_index,
                                   property |-> channel.target_property]),
                      channels, k + 1, time, a)
                  : written \in {WriteTransform(ents, channel.target_entity_index,
                                                channel.target_property, out.value)}})
             : out \in {ChannelOutcome(ents, channel, time)}})

\* mutant: the playing flag is not consulted
IsActiveIgnoringPlaying(anim_state) ==
    /\ anim_state.active_clip >= 0
    /\ anim_state.active_clip < Len(anim_state.clips)

\* the two guards at the head of the loop over scene.animations
IsActive(anim_state) ==
    /\ anim_state.playing
    /\ anim_state.active_clip >= 0
    /\ anim_state.active_clip < Len(anim_state.clips)

\* mutant: a finished clip wraps around whether it loops or not
AdvanceClockAlwaysWraps(anim_state, delta) ==
    LET t1 == anim_state.current_time + delta * anim_state.speed
        duration == At(anim_state.clips, anim_state.active_clip).duration
    IN  IF t1 > duration
        THEN [anim_state EXCEPT !.current_time = Fmod(t1, duration)]
        ELSE [anim_state EXCEPT !.current_time = t1]

\* mutant: a finished non-looping clip is clamped but keeps playing
AdvanceClockKeepsPlaying(anim_state, delta) ==
    LET t1 == anim_state.current_time + delta * anim_state.speed
        duration == At(anim_state.clips, anim_state.active_clip).duration
    IN  IF t1 > duration
        THEN IF anim_state.looping
             THEN [anim_state EXCEPT !.current_time = Fmod(t1, duration)]
             ELSE [anim_state EXCEPT !.current_time = duration]
        ELSE [anim_state EXCEPT !.current_time = t1]

\* current_time += dt * speed, then the wrap or the clamp-and-stop
AdvanceClock(anim_state, delta) ==
    LET t1 == anim_state.current_time + delta * anim_state.speed
        duration == At(anim_state.clips, anim_state.active_clip).duration
    IN  IF t1 > duration
        THEN IF anim_state.looping
             THEN [anim_state EXCEPT !.current_time = Fmod(t1, duration)]
             ELSE [anim_state EXCEPT !.current_time = duration,
                                     !.playing = FALSE]
        ELSE [anim_state EXCEPT !.current_time = t1]

\* for anim_state in &mut scene.animations { .. }, from state a on
RECURSIVE UpdateFrom(_, _, _, _, _)
UpdateFrom(anims, ents, log, a, delta) ==
    IF a >= Len(anims)
    THEN [animations |-> anims, entities |-> ents, writes |-> log,
          panicked |-> FALSE]
    ELSE LET anim_state == At(anims, a)
         IN  IF ~IsActive(anim_state)
             THEN UpdateFrom(anims, ents, log, a + 1, delta)
             ELSE The({
                  LET anims1 == [anims EXCEPT ![a + 1] = advanced]
                      clip == At(advanced.clips, advanced.active_clip)
                  IN  The({
                      IF r.panicked
                      THEN [animations |-> anims1, entities |-> r.entities,
                            writes |-> r.writes, panicked |-> TRUE]
                      ELSE UpdateFrom(anims1, r.entities, r.writes, a + 1, delta)
                      : r \in {ApplyChannels(ents, log, clip.channels, 0,
                                             advanced.current_time, a)}})
                  : advanced \in {AdvanceClock(anim_state, delta)}})

update_animations(anims, ents, delta) == UpdateFrom(anims, ents, <<>>, 0, delta)

\* ------------------------------------------------------------ transform.rs
\* the f64 -> f32 casts are exact on the grid
compose_local_transform(position, rotation, scale) ==
    from_scale_rotation_translation(scale, rotation, position)

LocalOf(e) ==
    compose_local_transform(e.transform.position, e.transform.rotation,
                            e.transform.scale)

\* mutant: the product is taken in the wrong order (local * parent)
ResolveEntityLocalFirst(ents, i) ==
    LET e == At(ents, i)
        local == LocalOf(e)
        world == IF IsSome(e.parent_index)
                 THEN IF Unwrap(e.parent_index) < Len(ents)
                      THEN MatMul(local, At(ents, Unwrap(e.parent_index)).world_transform)
                      ELSE local
                 ELSE local
    IN  [ents EXCEPT ![i + 1] =
             [e EXCEPT !.world_transform = world, !.transform.dirty = FALSE]]

\* the body of the loop for entity i
ResolveEntity(ents, i) ==
    LET e == At(ents, i)
        local == LocalOf(e)
        world == IF IsSome(e.parent_index)
                 THEN IF Unwrap(e.parent_index) < Len(ents)
                      THEN MatMul(At(ents, Unwrap(e.parent_index)).world_transform, local)
                      ELSE local
                 ELSE local
    IN  [ents EXCEPT ![i + 1] =
             [e EXCEPT !.world_transform = world, !.transform.dirty = FALSE]]

\* for i in 0..n, from entity i on
RECURSIVE ResolveFrom(_, _)
ResolveFrom(ents, i) ==
    IF i >= Len(ents) THEN ents ELSE ResolveFrom(ResolveEntity(ents, i), i + 1)

\* mutant: the pass runs from the last entity to the first, so a child reads
\* its parent's world transform before the pass has recomputed it
RECURSIVE ResolveDownFrom(_, _)
ResolveDownFrom(ents, i) ==
    IF i < 0 THEN ents ELSE ResolveDownFrom(ResolveEntity(ents, i), i - 1)

compute_world_transforms_children_first(ents) == ResolveDownFrom(ents, Len(ents) - 1)

compute_world_transforms(ents) == ResolveFrom(ents, 0)

\* ------------------------------------------------------------- skinning.rs
MAX_BONES == 128

\* mutant: the buffer grows but is never cut
ResizeNeverShrinks(v, n) ==
    [k \in 1 .. (IF n > Len(v) THEN n ELSE Len(v)) |->
        IF k <= Len(v) THEN v[k] ELSE Mat4Identity]

\* Vec::resize(n, Mat4::IDENTITY): truncate, or pad with the identity
Resize(v, n) == [k \in 1 .. n |-> IF k <= Len(v) THEN v[k] ELSE Mat4Identity]

\* mutant: the three factors are multiplied in the reverse order
BoneMatrixBindFirst(ents, skel, inv_mesh_world, i) ==
    LET bone_entity_idx == At(skel.bone_entity_indices, i)
    IN  IF bone_entity_idx >= Len(ents) THEN Mat4Identity
        ELSE MatMul(MatMul(At(skel.inverse_bind_matrices, i),
                           At(ents, bone_entity_idx).world_transform),
                    inv_mesh_world)

\* the value the bone loop stores into bone_matrices[i]
BoneMatrix(ents, skel, inv_mesh_world, i) ==
    LET bone_entity_idx == At(skel.bone_entity_indices, i)
    IN  IF bone_entity_idx >= Len(ents) THEN Mat4Identity
        ELSE MatMul(MatMul(inv_mesh_world,
                           At(ents, bone_entity_idx).world_transform),
                    At(skel.inverse_bind_matrices, i))

\* inverse_bind_matrices[i] is read only for a bone whose entity is valid;
\* the read panics when the list is shorter than the bone list
BonePanics(ents, skel, i) ==
    /\ At(skel.bone_entity_indices, i) < Len(ents)
    /\ ~InBounds(skel.inverse_bind_matrices, i)

\* for i in 0..bone_count: the bones before the first panicking read are
\* stored in order, each from the entities and the bind matrix alone
SkinBones(ents, skel, inv_mesh_world, bone_count) ==
    LET panicking == {i \in 0 .. (bone_count - 1) : BonePanics(ents, skel, i)}
        stop == IF panicking = {} THEN bone_count
                ELSE CHOOSE i \in panicking : \A j \in panicking : i <= j
    IN  [skeleton |->
             [skel EXCEPT !.bone_matrices =
                 [k \in 1 .. Len(skel.bone_matrices) |->
                     IF k - 1 < stop
                     THEN BoneMatrix(ents, skel, inv_mesh_world, k - 1)
                     ELSE skel.bone_matrices[k]]],
         panicked |-> panicking # {}]

\* the body of the loop for one skeleton whose owner exists
SkinSkeleton(ents, skel) ==
    LET mesh_world == At(ents, skel.entity_index).world_transform
        inv_mesh_world == Inverse(mesh_world)
        bone_count == Min(Len(skel.bone_entity_indices), MAX_BONES)
        resized == [skel EXCEPT !.bone_matrices = Resize(skel.bone_matrices, bone_count)]
    IN  SkinBones(ents, resized, inv_mesh_world, bone_count)

\* mutant: a skeleton without an owner ends the loop
RECURSIVE SkinFromStopsAtMissingOwner(_, _, _)
SkinFromStopsAtMissingOwner(skels, ents, skel_idx) ==
    IF skel_idx >= Len(skels) THEN [skeletons |-> skels, panicked |-> FALSE]
    ELSE IF At(skels, skel_idx).entity_index >= Len(ents)
    THEN [skeletons |-> skels, panicked |-> FALSE]
    ELSE LET r == SkinSkeleton(ents, At(skels, skel_idx))
             skels1 == [skels EXCEPT ![skel_idx + 1] = r.skeleton]
         IN  IF r.panicked THEN [skeletons |-> skels1, panicked |-> TRUE]
             ELSE SkinFromStopsAtMissingOwner(skels1, ents, skel_idx + 1)

\* for skel_idx in 0..scene.skeletons.len(), from skeleton skel_idx on
RECURSIVE SkinFrom(_, _, _)
SkinFrom(skels, ents, skel_idx) ==
    IF skel_idx >= Len(skels) THEN [skeletons |-> skels, panicked |-> FALSE]
    ELSE IF At(skels, skel_idx).entity_index >= Len(ents)
    THEN SkinFrom(skels, ents, skel_idx + 1)
    ELSE LET r == SkinSkeleton(ents, At(skels, skel_idx))
             skels1 == [skels EXCEPT ![skel_idx + 1] = r.skeleton]
         IN  IF r.panicked THEN [skeletons |-> skels1, panicked |-> TRUE]
             ELSE SkinFrom(skels1, ents, skel_idx + 1)

update_skinned_meshes(skels, ents) == SkinFrom(skels, ents, 0)

\* ------------------------------------------------- scene.rs: loaded scenes
\* LoadedScene::from_orsb builds every entity dirty with an identity world
\* transform and every animation state at current_time 0.  The scenes below
\* are the parsed inputs the runs enumerate.
HalfTurnX == from_xyzw(1, 0, 0, 0)
HalfTurnY == from_xyzw(0, 1, 0, 0)
HalfTurnZ == from_xyzw(0, 0, 1, 0)

PosePosition(i) ==
    IF i % 3 = 0 THEN Vec3(i + 1, 0, 0)
    ELSE IF i % 3 = 1 THEN Vec3(0, i + 1, 0)
    ELSE Vec3(0, 0, i + 1)

PoseRotation(i) ==
    IF i % 3 = 0 THEN HalfTurnZ ELSE IF i % 3 = 1 THEN QuatIdentity ELSE HalfTurnX

PoseScale(i) == IF i % 3 = 1 THEN Vec3(1, -1, 1) ELSE Vec3(1, 1, 1)

LoadedEntity(i, parent) ==
    [parent_index |-> parent,
     transform |-> [position |-> PosePosition(i), rotation |-> PoseRotation(i),
                    scale |-> PoseScale(i), dirty |-> TRUE],
     world_transform |-> Mat4Identity]

\* parent lists in depth-first order: every parent precedes its child
RECURSIVE ParentLists(_)
ParentLists(n) ==
    IF n = 0 THEN {<<>>}
    ELSE {Append(ps, p) : ps \in ParentLists(n - 1),
                          p \in {None} \cup {Some(j) : j \in 0 .. (n - 2)}}

\* root -> child -> grandchild -> ..
ChainParents == [i \in 1 .. NumEntities |-> IF i = 1 THEN None ELSE Some(i - 2)]

LoadedEntities(parents) == [i \in 1 .. NumEntities |-> LoadedEntity(i - 1, parents[i])]

Channel(target, property, interpolation, times, values) ==
    [target_entity_index |-> target, target_property |-> property,
     interpolation |-> interpolation, times |-> times, values |-> values]

MoveLeaf ==
    Channel(NumEntities - 1, "Position", "Linear", <<0, 1, 3>>,
            <<0, 0, 0,  2, 0, 0,  6, 2, 0>>)
TurnRoot ==
    Channel(0, "Rotation", "Step", <<0, 2>>, <<0, 0, 0, 1,  0, 1, 0, 0>>)
FlipChild ==
    Channel(1, "Scale", "CubicSpline", <<0, 1>>, <<1, -1, 1,  1, 1, -1>>)
NoKeys == Channel(0, "Position", "Step", <<>>, <<>>)
\* a channel whose target entity does not exist
StrayTarget == Channel(NumEntities, "Rotation", "Step", <<0>>, <<0, 1, 0, 0>>)
\* two keyframe times but the values of one key only
ShortValues == Channel(1, "Scale", "Step", <<2, 3>>, <<1, 1, 1>>)

ClipKinds == {"clean", "stray", "short"}

MainClip(kind) ==
    [name |-> "main", duration |-> 3,
     channels |-> <<MoveLeaf,
                    IF kind = "stray" THEN StrayTarget
                    ELSE IF kind = "short" THEN ShortValues ELSE NoKeys,
                    TurnRoot, FlipChild>>]

SideClip ==
    [name |-> "side", duration |-> 2,
     channels |-> <<Channel(NumEntities - 1, "Rotation", "Linear", <<0, 2>>,
                            <<0, 1, 0, 0,  0, -1, 0, 0>>),
                    Channel(1, "Position", "Step", <<0, 1>>,
                            <<0, 2, 0,  0, 3, 0>>)>>]

AnimConfigs ==
    [active_clip : {-1, 0, 1}, playing : BOOLEAN, looping : BOOLEAN,
     speed : {1, 2, -1}, kind : ClipKinds]

BaseConfig ==
    [active_clip |-> 0, playing |-> TRUE, looping |-> TRUE, speed |-> 1,
     kind |-> "clean"]

LoadedAnimations(cfg) ==
    <<[clips |-> <<MainClip(cfg.kind)>>, active_clip |-> cfg.active_clip,
       current_time |-> 0, playing |-> cfg.playing, looping |-> cfg.looping,
       speed |-> cfg.speed],
      [clips |-> <<SideClip>>, active_clip |-> 0, current_time |-> 0,
       playing |-> TRUE, looping |-> TRUE, speed |-> 1]>>

BindA == from_scale_rotation_translation(Vec3(1, 1, 1), HalfTurnY, Vec3(0, 0, 1))
BindB == from_scale_rotation_translation(Vec3(-1, 1, 1), QuatIdentity, Vec3(2, 0, 0))

\* more bones than the cap: the first, the last below the cap and the one
\* past the cap name entities, the others name none
WideBones ==
    [i \in 1 .. (MAX_BONES + 1) |->
        IF i = 1 THEN NumEntities - 1
        ELSE IF i = MAX_BONES THEN 1
        ELSE IF i = MAX_BONES + 1 THEN 0
        ELSE NumEntities]

\* from_orsb leaves scene.skeletons empty ("none"); "rig" is a scene with a
\* skeleton whose owner does not exist and one whose second bone does not;
\* "wide" is a skeleton with one bone more than MAX_BONES; "stale" has two
\* skeletons whose bone lists changed since their buffers were filled, one
\* now shorter and one longer, behind a skeleton whose owner does not exist;
\* "short" has a skeleton with fewer inverse bind matrices than bones,
\* between a skeleton without an owner and a well-formed one
Rigs == {"none", "rig", "wide", "stale", "short"}

LoadedSkeletons(rig) ==
    IF rig = "none" THEN <<>>
    ELSE IF rig = "wide"
    THEN <<[entity_index |-> 0,
            bone_entity_indices |-> WideBones,
            inverse_bind_matrices |->
                [i \in 1 .. (MAX_BONES + 1) |-> IF i % 2 = 0 THEN BindA ELSE BindB],
            bone_matrices |-> <<>>]>>
    ELSE IF rig = "stale"
    THEN <<[entity_index |-> NumEntities + 1,
            bone_entity_indices |-> <<0, 1>>,
            inverse_bind_matrices |-> <<BindA, BindB>>,
            bone_matrices |-> <<BindB>>],
           [entity_index |-> 0,
            bone_entity_indices |-> <<NumEntities - 1, 0>>,
            inverse_bind_matrices |-> <<BindA, BindB>>,
            bone_matrices |-> <<BindA, BindB, BindA, BindB>>],
           [entity_index |-> 1,
            bone_entity_indices |-> <<1, 0, NumEntities - 1>>,
            inverse_bind_matrices |-> <<BindB, Mat4Identity, BindA>>,
            bone_matrices |-> <<BindA>>]>>
    ELSE IF rig = "short"
    THEN <<[entity_index |-> NumEntities,
            bone_entity_indices |-> <<0>>,
            inverse_bind_matrices |-> <<Mat4Identity>>,
            bone_matrices |-> <<BindA>>],
           [entity_index |-> 0,
            bone_entity_indices |-> <<1, NumEntities - 1>>,
            inverse_bind_matrices |-> <<BindA>>,
            bone_matrices |-> <<>>],
           [entity_index |-> 1,
            bone_entity_indices |-> <<0>>,
            inverse_bind_matrices |-> <<BindB>>,
            bone_matrices |-> <<>>]>>
    ELSE <<[entity_index |-> NumEntities,
            bone_entity_indices |-> <<0>>,
            inverse_bind_matrices |-> <<Mat4Identity>>,
            bone_matrices |-> <<BindA>>],
           [entity_index |-> 1,
            bone_entity_indices |-> <<0, NumEntities, NumEntities - 1>>,
            inverse_bind_matrices |-> <<BindA, Mat4Identity, BindB>>,
            bone_matrices |-> <<>>]>>

\* ------------------------------------------------------- app.rs: App::frame
\* the first frame's delta (0.016 s) is one tick of the grid; timestamps are
\* counted in ticks as well, so the division by 1000 has no counterpart
FirstFrameDt == 1

Init ==
    /\ KfIdle
    /\ PoolIdle /\ LogIdle /\ SlerpIdle /\ HandleIdle
    /\ \E parents \in ParentLists(NumEntities), cfg \in AnimConfigs, rig \in Rigs :
          \* the base scene with one of hierarchy, animation, skeletons varied
          /\ \/ cfg = BaseConfig /\ rig = "rig"
             \/ parents = ChainParents /\ rig = "rig"
             \/ parents = ChainParents /\ cfg = BaseConfig
          /\ entities = LoadedEntities(parents)
          /\ animations = LoadedAnimations(cfg)
          /\ skeletons = LoadedSkeletons(rig)
    /\ input = [mouse_dx |-> 0, mouse_dy |-> 0]
    /\ last_time = 0
    /\ pc = "ready"
    /\ dt = 0
    /\ pre = [animations |-> animations, entities |-> entities]
    /\ writes = <<>>

\* InputState::update: reset the per-frame deltas
InputUpdate(inp) == [inp EXCEPT !.mouse_dx = 0, !.mouse_dy = 0]

\* App::frame(time) up to the return of update_animations
FrameAnimate(time) ==
    /\ pc \in {"ready", "returned"}
    /\ input' = InputUpdate(input)
    /\ LET delta == IF last_time > 0 THEN time - last_time ELSE FirstFrameDt
           r == update_animations(animations, entities, delta)
       IN  /\ dt' = delta
           /\ last_time' = time
           /\ pre' = [animations |-> animations, entities |-> entities]
           /\ animations' = r.animations
           /\ entities' = r.entities
           /\ writes' = r.writes
           /\ pc' = IF r.panicked THEN "anim_panic" ELSE "animated"
    /\ UNCHANGED skeletons
    /\ UNCHANGED <<kfVars, poolVars, logVars, slerpVars, handleVars>>

\* mutant: the world transforms are resolved from the transforms the frame
\* began with, as when the resolve stage runs ahead of the animation stage
FrameResolveBeforeAnimate ==
    /\ pc = "animated"
    /\ LET stale == compute_world_transforms(pre.entities)
       IN  entities' = [k \in 1 .. Len(entities) |->
                           [entities[k] EXCEPT !.world_transform = stale[k].world_transform]]
    /\ pc' = "resolved"
    /\ UNCHANGED <<animations, skeletons, input, last_time, dt, pre, writes>>
    /\ UNCHANGED <<kfVars, poolVars, logVars, slerpVars, handleVars>>

\* App::frame: transform::compute_world_transforms(&mut self.scene)
FrameResolve ==
    /\ pc = "animated"
    /\ entities' = compute_world_transforms(entities)
    /\ pc' = "resolved"
    /\ UNCHANGED <<animations, skeletons, input, last_time, dt, pre, writes>>
    /\ UNCHANGED <<kfVars, poolVars, logVars, slerpVars, handleVars>>

\* App::frame: skinning::update_skinned_meshes(&mut self.scene), then return
FrameSkin ==
    /\ pc = "resolved"
    /\ LET r == update_skinned_meshes(skeletons, entities)
       IN  /\ skeletons' = r.skeletons
           /\ pc' = IF r.panicked THEN "skin_panic" ELSE "returned"
    /\ UNCHANGED <<entities, animations, input, last_time, dt, pre, writes>>
    /\ UNCHANGED <<kfVars, poolVars, logVars, slerpVars, handleVars>>

\* the host's requestAnimationFrame timestamps are positive and never
\* decrease
FrameTimes == {t \in last_time .. (last_time + MaxStep) : 1 <= t /\ t <= MaxTime}

Next ==
    \/ \E time \in FrameTimes : FrameAnimate(time)
    \/ FrameResolve
    \/ FrameSkin

Spec == Init /\ [][Next]_vars

\* ------------------------------------------------------ animation: claims
Indices(v) == 0 .. (Len(v) - 1)

HasValidClip(anim_state) ==
    anim_state.active_clip >= 0 /\ anim_state.active_clip < Len(anim_state.clips)

ActiveDuration(anim_state) == At(anim_state.clips, anim_state.active_clip).duration

\* C3: one update_animations call moves a playing state with a valid clip of
\* duration D to t' = current_time + dt * speed: kept as it is when t' <= D,
\* wrapped to t' mod D (still playing) when looping, clamped to D and stopped
\* otherwise; so with speed >= 0 and D > 0 the clock stays inside [0, D].
C3_ClockAdvance ==
    /\ pc = "animated" =>
          \A a \in Indices(animations) :
              LET before == At(pre.animations, a)
                  after == At(animations, a)
                  D == ActiveDuration(before)
                  t1 == before.current_time + dt * before.speed
              IN  (before.playing /\ HasValidClip(before)) =>
                     /\ t1 <= D => (after.current_time = t1 /\ after.playing)
                     /\ (t1 > D /\ before.looping) =>
                            (after.current_time = t1 % D /\ after.playing)
                     /\ (t1 > D /\ ~before.looping) =>
                            (after.current_time = D /\ ~after.playing)
    /\ \A a \in Indices(animations) :
           LET st == At(animations, a)
           IN  (HasValidClip(st) /\ st.speed >= 0 /\ ActiveDuration(st) > 0) =>
                   (0 <= st.current_time /\ st.current_time <= ActiveDuration(st))

\* C3 witness: in one tick a non-looping clip ran past its end and stopped
\* at its duration while a looping clip wrapped
C3_Witness ==
    /\ pc = "animated"
    /\ \E a \in Indices(animations) :
           LET before == At(pre.animations, a)
               after == At(animations, a)
           IN  /\ before.playing /\ HasValidClip(before) /\ ~before.looping
               /\ before.current_time + dt * before.speed > ActiveDuration(before)
               /\ after.current_time = ActiveDuration(before) /\ ~after.playing
    /\ \E a \in Indices(animations) :
           LET before == At(pre.animations, a)
               after == At(animations, a)
           IN  /\ before.playing /\ HasValidClip(before) /\ before.looping
               /\ before.current_time + dt * before.speed > ActiveDuration(before)
               /\ after.current_time < ActiveDuration(before) /\ after.playing

WritesOf(a) == {n \in 1 .. Len(writes) : writes[n].anim = a}

\* C4: a state that is not playing, or whose active clip index is negative
\* or past the clip list, is left as it is by the tick (clock and playing
\* flag) and none of its channels writes to an entity.
C4_InactiveUntouched ==
    pc \in {"animated", "anim_panic"} =>
        \A a \in Indices(animations) :
            LET before == At(pre.animations, a)
            IN  (~before.playing \/ before.active_clip < 0
                 \/ before.active_clip >= Len(before.clips)) =>
                    /\ At(animations, a) = before
                    /\ WritesOf(a) = {}

\* C4 witness: a non-looping clip that had stopped at its duration sat
\* through a later tick in which another state wrote
C4_Witness ==
    /\ pc = "animated"
    /\ \E a \in Indices(animations) :
           LET before == At(pre.animations, a)
           IN  /\ ~before.playing /\ HasValidClip(before) /\ ~before.looping
               /\ before.current_time = ActiveDuration(before)
               /\ At(animations, a) = before
               /\ WritesOf(a) = {}
    /\ writes # <<>>

RECURSIVE SelectInRange(_, _)
SelectInRange(channels, n) ==
    IF channels = <<>> THEN <<>>
    ELSE IF Head(channels).target_entity_index >= n
         THEN SelectInRange(Tail(channels), n)
         ELSE <<Head(channels)>> \o SelectInRange(Tail(channels), n)

\* the animation states with every channel that targets no entity removed
WithoutStrayChannels(anims, n) ==
    [a \in 1 .. Len(anims) |->
        [anims[a] EXCEPT !.clips =
            [c \in 1 .. Len(anims[a].clips) |->
                [anims[a].clips[c] EXCEPT !.channels =
                    SelectInRange(anims[a].clips[c].channels, n)]]]]

Clocks(anims) ==
    [a \in 1 .. Len(anims) |-> <<anims[a].current_time, anims[a].playing>>]

\* C5: a channel whose target index is past the entity list writes nothing,
\* and the tick applies every other channel of the clip and every other
\* state: each channel with a target and with keys wrote, and the entities
\* and clocks are those of the same tick run without the stray channels.
C5_StrayChannelSkipped ==
    pc = "animated" =>
        /\ \A n \in 1 .. Len(writes) : writes[n].entity < Len(entities)
        /\ \A a \in Indices(animations) :
               LET before == At(pre.animations, a)
               IN  (before.playing /\ HasValidClip(before)) =>
                      \A k \in Indices(At(before.clips, before.active_clip).channels) :
                          LET channel == At(At(before.clips, before.active_clip).channels, k)
                          IN  (\E n \in WritesOf(a) : writes[n].channel = k)
                              <=> (channel.target_entity_index < Len(entities)
                                   /\ channel.times # <<>>)
        /\ LET r == update_animations(
                        WithoutStrayChannels(pre.animations, Len(pre.entities)),
                        pre.entities, dt)
           IN  /\ ~r.panicked
               /\ r.entities = entities
               /\ Clocks(r.animations) = Clocks(animations)

\* C5 witness: the active clip held a stray channel between two others, both
\* of which wrote, as did the other animation state
C5_Witness ==
    /\ pc = "animated"
    /\ \E a \in Indices(animations) :
           LET before == At(pre.animations, a)
               channels == At(before.clips, before.active_clip).channels
           IN  /\ before.playing /\ HasValidClip(before)
               /\ \E k \in Indices(channels) :
                      /\ At(channels, k).target_entity_index >= Len(entities)
                      /\ \E n \in WritesOf(a) : writes[n].channel < k
                      /\ \E n \in WritesOf(a) : writes[n].channel > k
               /\ \E b \in Indices(animations) : b > a /\ WritesOf(b) # {}

\* C6 (as claimed): a channel whose value buffer is too short for its
\* keyframe times is skipped and update_animations runs to completion.
C6_MalformedChannelSkipped == pc # "anim_panic"

\* C9: every write of update_animations leaves its entity dirty, and after
\* compute_world_transforms no entity is dirty, so none is when the frame
\* ends.
C9_DirtyProtocol ==
    /\ pc \in {"animated", "anim_panic"} =>
           \A n \in 1 .. Len(writes) : At(entities, writes[n].entity).transform.dirty
    /\ pc \in {"resolved", "returned"} =>
           \A i \in Indices(entities) : ~At(entities, i).transform.dirty

\* C9 witness: a frame that began with every entity clean wrote to one and
\* ended with every entity clean again
C9_Witness ==
    /\ pc = "returned"
    /\ writes # <<>>
    /\ \A i \in Indices(pre.entities) : ~At(pre.entities, i).transform.dirty
    /\ \A i \in Indices(entities) : ~At(entities, i).transform.dirty

\* ------------------------------------------------------ transform: claims
ParentsPrecede(ents) ==
    \A i \in Indices(ents) :
        IsSome(At(ents, i).parent_index) => Unwrap(At(ents, i).parent_index) < i

\* root-local x .. x parent-local x own-local
RECURSIVE ChainProduct(_, _)
ChainProduct(ents, i) ==
    LET e == At(ents, i)
    IN  IF IsSome(e.parent_index)
        THEN MatMul(ChainProduct(ents, Unwrap(e.parent_index)), LocalOf(e))
        ELSE LocalOf(e)

\* C7: after compute_world_transforms on a scene whose parents precede their
\* children every world transform is the ordered product of the local
\* matrices from the root down to the entity, taken from this frame's
\* local transforms.
C7_WorldIsChainProduct ==
    (pc \in {"resolved", "returned"} /\ ParentsPrecede(entities)) =>
        \A i \in Indices(entities) :
            At(entities, i).world_transform = ChainProduct(entities, i)

\* C7 witness: a grandchild whose local transform the frame's animation
\* changed got the product of its chain, which is not its own local matrix
C7_Witness ==
    /\ pc = "resolved"
    /\ \E i \in Indices(entities) :
           LET e == At(entities, i)
           IN  /\ IsSome(e.parent_index)
               /\ IsSome(At(entities, Unwrap(e.parent_index)).parent_index)
               /\ e.transform.position # At(pre.entities, i).transform.position
               /\ e.world_transform = ChainProduct(entities, i)
               /\ e.world_transform # LocalOf(e)
               /\ e.world_transform # At(pre.entities, i).world_transform

\* C8: a second compute_world_transforms with no change to any position,
\* rotation, scale or parent leaves every world transform and every dirty
\* flag as the first call left them.
C8_ResolveIdempotent ==
    pc = "resolved" => compute_world_transforms(entities) = entities

\* C8 witness: the pass has run on a scene with a parented entity whose
\* world transform it changed
C8_Witness ==
    /\ pc = "resolved"
    /\ \E i \in Indices(entities) :
           /\ IsSome(At(entities, i).parent_index)
           /\ At(entities, i).world_transform # At(pre.entities, i).world_transform
    /\ compute_world_transforms(entities) = entities

\* ------------------------------------------------------- skinning: claims
\* C10: after update_skinned_meshes, for a skeleton with an existing owner
\* and each bone below the cap: the identity when the bone's entity does not
\* exist, else inverse(owner world) x bone world x inverse bind; a missing
\* bone does not keep the later bones from being computed.
C10_BoneMatrices ==
    pc = "returned" =>
        \A s \in Indices(skeletons) :
            LET skel == At(skeletons, s)
            IN  skel.entity_index < Len(entities) =>
                   \A i \in 0 .. (Min(Len(skel.bone_entity_indices), MAX_BONES) - 1) :
                       /\ i < Len(skel.bone_matrices)
                       /\ At(skel.bone_matrices, i) =
                              IF At(skel.bone_entity_indices, i) >= Len(entities)
                              THEN Mat4Identity
                              ELSE MatMul(
                                       MatMul(Inverse(At(entities, skel.entity_index).world_transform),
                                              At(entities, At(skel.bone_entity_indices, i)).world_transform),
                                       At(skel.inverse_bind_matrices, i))

\* C10 witness: a skeleton with an existing owner and more bones than the
\* cap has a missing bone set to the identity and the last bone below the
\* cap computed to something else
C10_Witness ==
    /\ pc = "returned"
    /\ \E s \in Indices(skeletons) :
           LET skel == At(skeletons, s)
           IN  /\ skel.entity_index < Len(entities)
               /\ Len(skel.bone_entity_indices) > MAX_BONES
               /\ \E i, j \in Indices(skel.bone_entity_indices) :
                      /\ i < j /\ j = MAX_BONES - 1
                      /\ At(skel.bone_entity_indices, i) >= Len(entities)
                      /\ At(skel.bone_matrices, i) = Mat4Identity
                      /\ At(skel.bone_entity_indices, j) < Len(entities)
                      /\ At(skel.bone_matrices, j) # Mat4Identity
                      /\ At(skel.bone_matrices, j) # At(skel.inverse_bind_matrices, j)

\* ---------------------------------------------------------- frame: claims
\* C11: when App::frame returns, the three stages have run in the order
\* update_animations, compute_world_transforms, update_skinned_meshes, each
\* on the output of the one before: the animation states and the local
\* transforms are those update_animations makes of the state the frame began
\* with, every world transform is the chain product of those local
\* transforms, and every bone matrix of a skeleton with an existing owner is
\* built from those world transforms.
C11_StagesInOrder ==
    (pc = "returned" /\ ParentsPrecede(entities)) =>
        LET sampled == update_animations(pre.animations, pre.entities, dt)
            world(i) == ChainProduct(sampled.entities, i)
        IN  /\ animations = sampled.animations
            /\ \A i \in Indices(entities) :
                   /\ At(entities, i).transform.position =
                          At(sampled.entities, i).transform.position
                   /\ At(entities, i).transform.rotation =
                          At(sampled.entities, i).transform.rotation
                   /\ At(entities, i).transform.scale =
                          At(sampled.entities, i).transform.scale
                   /\ At(entities, i).world_transform = world(i)
            /\ \A s \in Indices(skeletons) :
                   LET skel == At(skeletons, s)
                   IN  skel.entity_index < Len(entities) =>
                          \A i \in Indices(skel.bone_matrices) :
                              At(skel.bone_entity_indices, i) < Len(entities) =>
                                  At(skel.bone_matrices, i) =
                                      MatMul(MatMul(Inverse(world(skel.entity_index)),
                                                    world(At(skel.bone_entity_indices, i))),
                                             At(skel.inverse_bind_matrices, i))

\* C11 witness: a returned frame whose animation moved an entity; the
\* entity's world transform changed with it, and so did the matrix of a bone
\* bound to that entity
C11_Witness ==
    /\ pc = "returned"
    /\ last_time > 1
    /\ \E s \in Indices(skeletons) :
           LET skel == At(skeletons, s)
           IN  /\ skel.entity_index < Len(entities)
               /\ \E i \in Indices(skel.bone_matrices) :
                      LET b == At(skel.bone_entity_indices, i)
                      IN  /\ b < Len(entities)
                          /\ \E w \in 1 .. Len(writes) : writes[w].entity = b
                          /\ At(entities, b).transform.position #
                                 At(pre.entities, b).transform.position
                          /\ At(entities, b).world_transform #
                                 At(pre.entities, b).world_transform
                          /\ At(skel.bone_matrices, i) =
                                 MatMul(MatMul(Inverse(At(entities, skel.entity_index).world_transform),
                                               At(entities, b).world_transform),
                                        At(skel.inverse_bind_matrices, i))
                          /\ At(skel.bone_matrices, i) # Mat4Identity

\* ============================================================ particles.rs
\* Numbers.  Lengths (positions, sizes) are counted in hundredths and
\* velocities in hundredths per second, so that GRAVITY = (0, -9.81, 0) is
\* on the grid; dt and lifetimes are whole seconds; emission_rate and
\* emit_accumulator are counted in halves (AccOne is 1.0); colours, alpha
\* and texture coordinates are counted in hundredths (FloatOne is 1.0).
GRAVITY == Vec3(0, -981, 0)

\* 1.0 on the accumulator's grid of halves
AccOne == 2

\* ---- the global generator: xorshift on a u32 kept as <<high, low>>
\* 16-bit halves
RECURSIVE BitXor(_, _)
BitXor(a, b) ==
    IF a = 0 THEN b
    ELSE IF b = 0 THEN a
    ELSE 2 * BitXor(a \div 2, b \div 2) + ((a + b) % 2)

\* the xor of two 4-bit digits, tabulated
XorTable == [a \in 0 .. 15 |-> [b \in 0 .. 15 |-> BitXor(a, b)]]

\* the xor of two 16-bit halves, digit by digit
Xor16(a, b) ==
    XorTable[a % 16][b % 16]
    + 16 * XorTable[(a \div 16) % 16][(b \div 16) % 16]
    + 256 * XorTable[(a \div 256) % 16][(b \div 256) % 16]
    + 4096 * XorTable[a \div 4096][b \div 4096]

Xor32(x, y) == <<Xor16(x[1], y[1]), Xor16(x[2], y[2])>>

\* x << k for k < 16, handed 2^k; the bits shifted past bit 31 are dropped
ShiftLeft(x, pow) ==
    <<((x[1] * pow) % 65536) + (x[2] \div (65536 \div pow)), (x[2] * pow) % 65536>>

\* x >> 17
ShiftRight17(x) == <<0, x[1] \div 2>>

\* RAND_STATE ^= RAND_STATE << 13
XorShiftLeft13(x) == Xor32(x, ShiftLeft(x, 8192))
\* RAND_STATE ^= RAND_STATE >> 17
XorShiftRight17(x) == Xor32(x, ShiftRight17(x))
\* RAND_STATE ^= RAND_STATE << 5
XorShiftLeft5(x) == Xor32(x, ShiftLeft(x, 32))

\* the three xorshift steps of rand_f32
xorshift(x) == XorShiftLeft5(XorShiftRight17(XorShiftLeft13(x)))

\* rand_f32: steps the global state; the float returned is state / 2^32
\* (u32::MAX as f32 is 2^32), kept as the state it is computed from
rand_f32(state) == xorshift(state)

\* the states of n consecutive rand_f32 calls from `state` on
RECURSIVE RandStates(_, _)
RandStates(state, n) ==
    IF n = 0 THEN <<>> ELSE <<rand_f32(state)>> \o RandStates(rand_f32(state), n - 1)

\* rand_range(lo, hi) = lo + (hi - lo) * r for the float r = s / 2^32 that
\* rand_f32 returned, rounded down to the grid
rand_range(lo, hi, s) ==
    lo + (((hi - lo) * s[1] + (((hi - lo) * s[2]) \div 65536)) \div 65536)

\* ---- Particle and ParticlePool
DeadParticle ==
    [position |-> Vec3(0, 0, 0), velocity |-> Vec3(0, 0, 0), lifetime |-> 0,
     max_lifetime |-> 1, size |-> 0, alive |-> FALSE]

\* 1.0 on the grid of hundredths
FloatOne == 100

\* floats per particle in vertex_data: 6 vertices of 9 floats
FloatsPerParticle == 6 * 9

\* ParticlePool::new(max_particles)
ParticlePoolNew(max_particles) ==
    [particles |-> [k \in 1 .. max_particles |-> DeadParticle],
     emit_accumulator |-> 0,
     vertex_data |-> [k \in 1 .. (max_particles * FloatsPerParticle) |-> 0],
     vertex_count |-> 0,
     alive_count |-> 0]

\* Vec::resize_with / Vec::resize: truncate, or pad with the fill value
ResizeWith(v, n, fill) == [k \in 1 .. n |-> IF k <= Len(v) THEN v[k] ELSE fill]

\* ParticlePool::resize(max_particles)
resize(pool, max_particles) ==
    IF Len(pool.particles) # max_particles
    THEN [pool EXCEPT
             !.particles = ResizeWith(pool.particles, max_particles, DeadParticle),
             !.vertex_data = ResizeWith(pool.vertex_data,
                                        max_particles * FloatsPerParticle, 0)]
    ELSE pool

AliveSlots(particles) == {k \in 1 .. Len(particles) : particles[k].alive}

\* the particle emit writes into a slot: the five rand_range calls in the
\* order of the source, draws[i] the state after the i-th
EmittedParticle(origin, config, draws) ==
    [position |-> origin,
     velocity |-> Vec3(rand_range(config.velocity_min[1], config.velocity_max[1], draws[1]),
                       rand_range(config.velocity_min[2], config.velocity_max[2], draws[2]),
                       rand_range(config.velocity_min[3], config.velocity_max[3], draws[3])),
     lifetime |-> rand_range(config.lifetime_min, config.lifetime_max, draws[4]),
     max_lifetime |-> rand_range(config.lifetime_min, config.lifetime_max, draws[4]),
     size |-> rand_range(config.start_size_min, config.start_size_max, draws[5]),
     alive |-> TRUE]

\* slot k (1-based) becomes a new particle: [pool, state, emitted]
EmitInto(pool, k, origin, config, draws) ==
    [pool |-> [pool EXCEPT !.particles[k] = EmittedParticle(origin, config, draws)],
     state |-> draws[5], emitted |-> TRUE]

\* the first dead slot (1-based), 0 when every slot is alive
FirstDead(particles) ==
    IF \A k \in 1 .. Len(particles) : particles[k].alive THEN 0
    ELSE CHOOSE d \in 1 .. Len(particles) :
             /\ ~particles[d].alive
             /\ \A e \in 1 .. (d - 1) : particles[e].alive

\* mutant: the slot after the last alive one is taken, wrapping around to
\* slot 0 when the array is full
emit_overwrites(pool, origin, config, state) ==
    IF pool.particles = <<>> THEN [pool |-> pool, state |-> state, emitted |-> FALSE]
    ELSE EmitInto(pool,
                  (Cardinality(AliveSlots(pool.particles)) % Len(pool.particles)) + 1,
                  origin, config, RandStates(state, 5))

\* ParticlePool::emit: the first dead slot, if any, becomes a new particle
\* drawn from the global generator: [pool, state, emitted]
emit(pool, origin, config, state) ==
    IF FirstDead(pool.particles) = 0
    THEN [pool |-> pool, state |-> state, emitted |-> FALSE]
    ELSE EmitInto(pool, FirstDead(pool.particles), origin, config, RandStates(state, 5))

\* v * k for a whole number k
VecTimes(v, k) == <<v[1] * k, v[2] * k, v[3] * k>>

\* the body of the simulate loop for one particle
SimulateParticle(p, delta, gravity_modifier, damping) ==
    IF ~p.alive THEN p
    ELSE LET lifetime == p.lifetime - delta
         IN  IF lifetime <= 0 THEN [p EXCEPT !.lifetime = lifetime, !.alive = FALSE]
             ELSE LET pulled == VecAdd(p.velocity,
                                       VecTimes(VecTimes(GRAVITY, gravity_modifier), delta))
                      velocity == VecTimes(pulled, 1 - damping * delta)
                  IN  [p EXCEPT !.lifetime = lifetime,
                                !.velocity = velocity,
                                !.position = VecAdd(p.position, VecTimes(velocity, delta))]

\* ParticlePool::simulate
simulate(pool, delta, gravity_modifier, damping) ==
    LET moved == [k \in 1 .. Len(pool.particles) |->
                     SimulateParticle(pool.particles[k], delta, gravity_modifier, damping)]
    IN  [pool EXCEPT !.particles = moved,
                     !.alive_count = Cardinality(AliveSlots(moved))]

Swap(v, i, j) == [v EXCEPT ![i + 1] = At(v, j), ![j + 1] = At(v, i)]

\* the partition loop of sort_back_to_front from index i on: [particles, write]
RECURSIVE PartitionFrom(_, _, _)
PartitionFrom(particles, i, write) ==
    IF i >= Len(particles) THEN [particles |-> particles, write |-> write]
    ELSE IF At(particles, i).alive
    THEN PartitionFrom(IF i # write THEN Swap(particles, i, write) ELSE particles,
                       i + 1, write + 1)
    ELSE PartitionFrom(particles, i + 1, write)

length_squared(v) == v[1] * v[1] + v[2] * v[2] + v[3] * v[3]

\* mutant: the comparison the other way round, nearest first
ComesBeforeNearest(a, b, cam_pos) ==
    length_squared(VecSub(a.position, cam_pos)) < length_squared(VecSub(b.position, cam_pos))

\* the sort_by closure returns Less: db < da, a is farther than b
ComesBefore(a, b, cam_pos) ==
    length_squared(VecSub(b.position, cam_pos)) < length_squared(VecSub(a.position, cam_pos))

\* slice::sort_by is stable: x goes behind every element it does not come
\* before
RECURSIVE InsertSorted(_, _, _)
InsertSorted(sorted, x, cam_pos) ==
    IF sorted = <<>> THEN <<x>>
    ELSE IF ComesBefore(x, sorted[Len(sorted)], cam_pos)
    THEN Append(InsertSorted(SubSeq(sorted, 1, Len(sorted) - 1), x, cam_pos),
                sorted[Len(sorted)])
    ELSE Append(sorted, x)

RECURSIVE SortBy(_, _)
SortBy(v, cam_pos) ==
    IF v = <<>> THEN <<>>
    ELSE InsertSorted(SortBy(SubSeq(v, 1, Len(v) - 1), cam_pos), v[Len(v)], cam_pos)

\* ParticlePool::sort_back_to_front
sort_back_to_front(pool, cam_pos) ==
    LET parted == PartitionFrom(pool.particles, 0, 0)
        n == Len(pool.particles)
    IN  [pool EXCEPT !.particles =
            SortBy(SubSeq(parted.particles, 1, parted.write), cam_pos)
            \o SubSeq(parted.particles, parted.write + 1, n)]

\* fn lerp(a, b, t) = a + (b - a) * t for a fraction t, rounded down to the
\* grid
lerp(a, b, t) == a + ((b - a) * t[1]) \div t[2]

\* (lifetime / max_lifetime).clamp(0.0, 1.0), a fraction
LifeFraction(p) ==
    IF p.lifetime <= 0 THEN FZero
    ELSE IF p.lifetime >= p.max_lifetime THEN <<1, 1>>
    ELSE Frac(p.lifetime, p.max_lifetime)

\* the six corners of one particle, each <<x, y, z, u, v, r, g, b, a>>
Corners(p, config, cam_right, cam_up) ==
    LET life == LifeFraction(p)
        t == Frac(life[2] - life[1], life[2])
        size == lerp(p.size, config.end_size, t)
        half == size \div 2
        r == lerp(config.start_color[1], config.end_color[1], t)
        g == lerp(config.start_color[2], config.end_color[2], t)
        b == lerp(config.start_color[3], config.end_color[3], t)
        a == lerp(config.start_alpha, config.end_alpha, t)
        right == VecTimes(cam_right, half)
        up == VecTimes(cam_up, half)
        bl == VecSub(VecSub(p.position, right), up)
        br == VecSub(VecAdd(p.position, right), up)
        tr == VecAdd(VecAdd(p.position, right), up)
        tl == VecAdd(VecSub(p.position, right), up)
        vertex(q, u, v) == <<q[1], q[2], q[3], u, v, r, g, b, a>>
    IN  <<vertex(bl, 0, 0), vertex(br, FloatOne, 0), vertex(tr, FloatOne, FloatOne),
          vertex(bl, 0, 0), vertex(tr, FloatOne, FloatOne), vertex(tl, 0, FloatOne)>>

\* for (pos, u, v) in corners, from corner c on.  The writes start at offset
\* 0 and each follows the one before, so `written` holds the floats stored
\* so far and offset = Len(written): [written, count]
RECURSIVE WriteCorners(_, _, _, _, _)
WriteCorners(written, corners, c, vert_count, data_len) ==
    IF c > Len(corners) THEN [written |-> written, count |-> vert_count]
    ELSE IF Len(written) + 9 <= data_len
    THEN WriteCorners(written \o corners[c], corners, c + 1, vert_count + 1, data_len)
    ELSE WriteCorners(written, corners, c + 1, vert_count, data_len)

\* for p in &self.particles, from slot k (1-based) on
RECURSIVE BuildFrom(_, _, _, _, _, _, _, _)
BuildFrom(particles, written, k, vert_count, data_len, config, cam_right, cam_up) ==
    IF k > Len(particles) THEN [written |-> written, count |-> vert_count]
    ELSE IF ~particles[k].alive
    THEN BuildFrom(particles, written, k + 1, vert_count, data_len,
                   config, cam_right, cam_up)
    ELSE LET w == WriteCorners(written, Corners(particles[k], config, cam_right, cam_up),
                               1, vert_count, data_len)
         IN  BuildFrom(particles, w.written, k + 1, w.count, data_len,
                       config, cam_right, cam_up)

\* vertex_data with the floats written from offset 0 stored over it
Overwrite(data, written) ==
    [k \in 1 .. Len(data) |-> IF k <= Len(written) THEN written[k] ELSE data[k]]

\* mutant: vertex_count counts the particles, not their vertices
build_billboards_counts_particles(pool, config, cam_right, cam_up) ==
    LET built == BuildFrom(pool.particles, <<>>, 1, 0, Len(pool.vertex_data),
                           config, cam_right, cam_up)
    IN  [pool EXCEPT !.vertex_data = Overwrite(pool.vertex_data, built.written),
                     !.vertex_count = built.count \div 6]

\* ParticlePool::build_billboards
build_billboards(pool, config, cam_right, cam_up) ==
    LET built == BuildFrom(pool.particles, <<>>, 1, 0, Len(pool.vertex_data),
                           config, cam_right, cam_up)
    IN  [pool EXCEPT !.vertex_data = Overwrite(pool.vertex_data, built.written),
                     !.vertex_count = built.count]

\* for _ in 0..config.burst_count, with `remaining` rounds to go, after the
\* emit call e of this round: [pool, state, emitted]
RECURSIVE BurstFrom(_, _, _, _, _, _)
RECURSIVE BurstAfterEmit(_, _, _, _, _)
RECURSIVE BurstFromOneShort(_, _, _, _, _, _)

\* mutant: the loop stops one round early
BurstFromOneShort(pool, state, remaining, emitted, origin, config) ==
    IF remaining <= 1 THEN [pool |-> pool, state |-> state, emitted |-> emitted]
    ELSE IF FirstDead(pool.particles) = 0
    THEN [pool |-> pool, state |-> state, emitted |-> emitted]
    ELSE BurstFromOneShort(
             [pool EXCEPT !.particles[FirstDead(pool.particles)] =
                 EmittedParticle(origin, config, RandStates(state, 5))],
             RandStates(state, 5)[5], remaining - 1, emitted + 1, origin, config)

BurstFrom(pool, state, remaining, emitted, origin, config) ==
    IF remaining <= 0 THEN [pool |-> pool, state |-> state, emitted |-> emitted]
    ELSE BurstAfterEmit(emit(pool, origin, config, state), remaining, emitted,
                        origin, config)

\* if !self.emit(origin, config) { break; }
BurstAfterEmit(e, remaining, emitted, origin, config) ==
    IF ~e.emitted THEN [pool |-> e.pool, state |-> e.state, emitted |-> emitted]
    ELSE BurstFrom(e.pool, e.state, remaining - 1, emitted + 1, origin, config)

\* the result b of the burst loop with the config the burst step leaves
BurstResult(b, config) ==
    [pool |-> b.pool, state |-> b.state, emitted |-> b.emitted, config |-> config]

\* the burst request less the particles that found a slot
BurstRest(b, config) ==
    BurstResult(b, [config EXCEPT !.burst_count = config.burst_count - b.emitted])

\* mutant: only the particles that found a slot are taken off the request
BurstStepKeepsRest(pool, state, origin, config) ==
    IF config.burst_count > 0
    THEN BurstRest(BurstFrom(pool, state, config.burst_count, 0, origin, config), config)
    ELSE [pool |-> pool, state |-> state, emitted |-> 0, config |-> config]

\* the burst step of update: [pool, state, emitted, config]
BurstStep(pool, state, origin, config) ==
    IF config.burst_count > 0
    THEN BurstResult(BurstFrom(pool, state, config.burst_count, 0, origin, config),
                     [config EXCEPT !.burst_count = 0])
    ELSE [pool |-> pool, state |-> state, emitted |-> 0, config |-> config]

\* while self.emit_accumulator >= 1.0, after the emit call e of a round:
\* [pool, state, emitted]
RECURSIVE ContinuousFrom(_, _, _, _, _)
RECURSIVE ContinuousAfterEmit(_, _, _, _)
ContinuousFrom(pool, state, emitted, origin, config) ==
    IF pool.emit_accumulator < AccOne
    THEN [pool |-> pool, state |-> state, emitted |-> emitted]
    ELSE ContinuousAfterEmit(emit(pool, origin, config, state), emitted, origin, config)

\* mutant: when no slot is free the whole units left are dropped
ContinuousAfterEmitDropsBacklog(e, emitted, origin, config) ==
    IF ~e.emitted
    THEN [pool |-> [e.pool EXCEPT !.emit_accumulator = e.pool.emit_accumulator % AccOne],
          state |-> e.state, emitted |-> emitted]
    ELSE ContinuousFrom(
             [e.pool EXCEPT !.emit_accumulator = e.pool.emit_accumulator - AccOne],
             e.state, emitted + 1, origin, config)

\* if !self.emit(origin, config) { break; } self.emit_accumulator -= 1.0
ContinuousAfterEmit(e, emitted, origin, config) ==
    IF ~e.emitted THEN [pool |-> e.pool, state |-> e.state, emitted |-> emitted]
    ELSE ContinuousFrom(
             [e.pool EXCEPT !.emit_accumulator = e.pool.emit_accumulator - AccOne],
             e.state, emitted + 1, origin, config)

\* self.emit_accumulator += config.emission_rate * dt
Charge(pool, rate, delta) ==
    [pool EXCEPT !.emit_accumulator = pool.emit_accumulator + rate * delta]

\* update from the simulate step on, given the pool after each earlier step
UpdateSimulated(resized, burst, cont, simulated, config, cam_pos, cam_right, cam_up) ==
    [pool |-> build_billboards(sort_back_to_front(simulated, cam_pos),
                               config, cam_right, cam_up),
     config |-> burst.config, state |-> cont.state,
     after_resize |-> resized, after_burst |-> burst.pool,
     after_emit |-> cont.pool, after_simulate |-> simulated,
     burst_emitted |-> burst.emitted, cont_emitted |-> cont.emitted]

\* update from the continuous emission on
UpdateBurst(resized, burst, cont, delta, cam_pos, cam_right, cam_up) ==
    UpdateSimulated(resized, burst, cont,
                    simulate(cont.pool, delta, burst.config.gravity_modifier,
                             burst.config.damping),
                    burst.config, cam_pos, cam_right, cam_up)

\* update from the burst step on
UpdateResized(resized, burst, delta, origin, cam_pos, cam_right, cam_up) ==
    UpdateBurst(resized, burst,
                ContinuousFrom(Charge(burst.pool, burst.config.emission_rate, delta),
                               burst.state, 0, origin, burst.config),
                delta, cam_pos, cam_right, cam_up)

\* update after the resize step
UpdateAfterResize(resized, delta, origin, config, cam_pos, cam_right, cam_up, state) ==
    UpdateResized(resized, BurstStep(resized, state, origin, config),
                  delta, origin, cam_pos, cam_right, cam_up)

\* ParticlePool::update: the pool, the config and the generator state it
\* leaves, with the pool as it was after each step
update(pool, delta, origin, config, cam_pos, cam_right, cam_up, state) ==
    UpdateAfterResize(resize(pool, config.max_particles),
                      delta, origin, config, cam_pos, cam_right, cam_up, state)

\* ------------------------------------------------- particle emitters: runs
\* most update calls of one run
MaxTicks == 3
\* largest max_particles the host sets
PoolCapacity == 3

\* ParticleConfig::default() on the grid, for a pool of max_particles slots
\* emitting emission_rate halves per second
ParticleConfigOf(max_particles, emission_rate, damping) ==
    [max_particles |-> max_particles, emission_rate |-> emission_rate,
     burst_count |-> 0, lifetime_min |-> 1, lifetime_max |-> 4,
     velocity_min |-> Vec3(-50, 100, -50), velocity_max |-> Vec3(50, 300, 50),
     gravity_modifier |-> 1, damping |-> damping,
     start_size_min |-> 10, start_size_max |-> 30, end_size |-> 0,
     start_color |-> <<FloatOne, FloatOne, FloatOne>>,
     end_color |-> <<FloatOne, 0, FloatOne>>,
     start_alpha |-> FloatOne, end_alpha |-> 0, additive |-> FALSE]

\* the emitters' world origins and the camera the host passes to update
Origin(p) == IF p = 1 THEN Vec3(0, 0, 0) ELSE Vec3(100, 0, 0)
CamPos == Vec3(0, 0, 500)
CamRight == Vec3(1, 0, 0)
CamUp == Vec3(0, 1, 0)

\* frame deltas in whole seconds
Dts == {0, 1, 2}
\* burst requests: fewer than the pool holds, one more than it holds
BurstCounts == {2, PoolCapacity + 1}
\* the values the host sets max_particles to
MaxParticleEdits == {1, PoolCapacity}

\* one emitter whose config the host edits between frames of a fixed delta;
\* emission_rate is 0 or one and a half per second
PoolInit ==
    /\ \E cfg \in {ParticleConfigOf(2, 0, 0), ParticleConfigOf(2, 3, 1)} :
          configs = <<cfg>>
    /\ frame_delta \in Dts
    /\ pools = <<ParticlePoolNew(configs[1].max_particles)>>
    /\ RAND_STATE = <<0, 12345>>
    /\ solo = <<[pool |-> pools[1], state |-> RAND_STATE]>>
    /\ tick = <<>>
    /\ ticks = 0
    /\ KfIdle /\ AppIdle /\ LogIdle /\ SlerpIdle /\ HandleIdle

\* two emitters with configs nobody edits, updated in any order with any
\* delta
PairInit ==
    /\ configs = <<ParticleConfigOf(2, 3, 0), ParticleConfigOf(1, 2, 0)>>
    /\ frame_delta = 0
    /\ pools = [p \in 1 .. 2 |-> ParticlePoolNew(configs[p].max_particles)]
    /\ RAND_STATE = <<0, 12345>>
    /\ solo = [p \in 1 .. 2 |-> [pool |-> pools[p], state |-> RAND_STATE]]
    /\ tick = <<>>
    /\ ticks = 0
    /\ KfIdle /\ AppIdle /\ LogIdle /\ SlerpIdle /\ HandleIdle

\* one call pools[p].update(delta, origin, &mut configs[p], camera)
UpdatePool(p, delta) ==
    /\ ticks < MaxTicks
    /\ \E u \in {update(pools[p], delta, Origin(p), configs[p],
                        CamPos, CamRight, CamUp, RAND_STATE)} :
          /\ pools' = [pools EXCEPT ![p] = u.pool]
          /\ configs' = [configs EXCEPT ![p] = u.config]
          /\ RAND_STATE' = u.state
          /\ solo' = [solo EXCEPT ![p] =
                IF solo[p] = [pool |-> pools[p], state |-> RAND_STATE]
                THEN [pool |-> u.pool, state |-> u.state]
                ELSE LET alone == update(solo[p].pool, delta, Origin(p), configs[p],
                                         CamPos, CamRight, CamUp, solo[p].state)
                     IN  [pool |-> alone.pool, state |-> alone.state]]
          /\ tick' = <<[emitter |-> p, delta |-> delta, before |-> pools[p],
                        config_before |-> configs[p], config_after |-> u.config,
                        after_resize |-> u.after_resize.particles,
                        after_burst |-> u.after_burst.particles,
                        after_emit |-> u.after_emit.particles,
                        after_simulate |-> u.after_simulate.particles,
                        burst_emitted |-> u.burst_emitted,
                        cont_emitted |-> u.cont_emitted]>>
    /\ ticks' = ticks + 1
    /\ UNCHANGED frame_delta
    /\ UNCHANGED <<kfVars, appVars, logVars, slerpVars, handleVars>>

\* the host requests a burst on the first emitter
SetBurst(n) ==
    /\ ticks < MaxTicks
    /\ configs[1].burst_count = 0
    /\ configs' = [configs EXCEPT ![1].burst_count = n]
    /\ UNCHANGED <<pools, RAND_STATE, solo, tick, ticks, frame_delta>>
    /\ UNCHANGED <<kfVars, appVars, logVars, slerpVars, handleVars>>

\* the host edits max_particles of the first emitter
SetMaxParticles(m) ==
    /\ ticks < MaxTicks
    /\ configs[1].max_particles # m
    /\ configs' = [configs EXCEPT ![1].max_particles = m]
    /\ UNCHANGED <<pools, RAND_STATE, solo, tick, ticks, frame_delta>>
    /\ UNCHANGED <<kfVars, appVars, logVars, slerpVars, handleVars>>

PoolNext ==
    \/ UpdatePool(1, frame_delta)
    \/ \E n \in BurstCounts : SetBurst(n)
    \/ \E m \in MaxParticleEdits : SetMaxParticles(m)

PoolSpec == PoolInit /\ [][PoolNext]_vars

PairNext == \E p \in 1 .. 2, delta \in Dts : UpdatePool(p, delta)

PairSpec == PairInit /\ [][PairNext]_vars

\* ------------------------------------------------------ particles: claims
AliveCount(particles) == Cardinality(AliveSlots(particles))

Ticked == tick # <<>>
\* the pool the last update call left (only update changes a pool)
TickedPool == pools[tick[1].emitter]

\* C12: an update called with burst_count = N > 0 on a pool without an alive
\* particle, whose capacity in that call (config.max_particles, which the
\* resize step gives it) is at least N, has exactly N alive particles right
\* after the burst step; when the same call then emits nothing more and no
\* particle dies in it, the public alive_count is N when it returns.
C12_BurstConserved ==
    Ticked =>
        LET t == tick[1]
            N == t.config_before.burst_count
        IN  (N > 0 /\ AliveSlots(t.before.particles) = {}
                   /\ t.config_before.max_particles >= N) =>
                /\ AliveCount(t.after_burst) = N
                /\ t.burst_emitted = N
                /\ (t.cont_emitted = 0
                        /\ AliveCount(t.after_simulate) = AliveCount(t.after_emit)) =>
                       TickedPool.alive_count = N

\* C12 witness: a burst of two into an empty pool that had to grow for it;
\* both particles are alive after the burst step and when update returns
C12_Witness ==
    /\ Ticked
    /\ tick[1].config_before.burst_count = 2
    /\ AliveSlots(tick[1].before.particles) = {}
    /\ Len(tick[1].before.particles) < 2
    /\ tick[1].config_before.max_particles >= 2
    /\ AliveCount(tick[1].after_burst) = 2
    /\ TickedPool.alive_count = 2

\* whole units the continuous emission of the last call had to emit
ContinuousUnits(t) ==
    (t.before.emit_accumulator + t.config_before.emission_rate * t.delta) \div AccOne

RequestedBurst(t) ==
    IF t.config_before.burst_count > 0 THEN t.config_before.burst_count ELSE 0

\* C13: after every update the alive particles are at most
\* config.max_particles; the two emission steps leave every particle that
\* was alive before them as it was, and together they emit the requested
\* number or, when fewer dead slots exist, exactly as many as there are
\* dead slots.
C13_NeverExceedsCapacity ==
    Ticked =>
        LET t == tick[1]
            dead == Len(t.after_resize) - AliveCount(t.after_resize)
        IN  /\ AliveCount(TickedPool.particles) <= t.config_after.max_particles
            /\ AliveCount(t.after_emit) <= t.config_after.max_particles
            /\ Len(t.after_emit) = Len(t.after_resize)
            /\ \A k \in 1 .. Len(t.after_resize) :
                   t.after_resize[k].alive => t.after_emit[k] = t.after_resize[k]
            /\ t.burst_emitted + t.cont_emitted =
                   Min(dead, RequestedBurst(t) + ContinuousUnits(t))

\* C13 witness: a call that was asked for more particles than it had dead
\* slots, on a pool that already held an alive particle
C13_Witness ==
    /\ Ticked
    /\ AliveCount(tick[1].after_resize) > 0
    /\ tick[1].burst_emitted > 0
    /\ RequestedBurst(tick[1]) + ContinuousUnits(tick[1]) >
           Len(tick[1].after_resize) - AliveCount(tick[1].after_resize)
    /\ AliveCount(tick[1].after_emit) = tick[1].config_after.max_particles

\* C14: update leaves burst_count at 0 whenever it was called with a
\* positive one, also when the pool filled up first; called with
\* burst_count = 0 it emits no burst particle.
C14_BurstAcknowledged ==
    Ticked =>
        LET t == tick[1]
        IN  /\ t.config_before.burst_count > 0 => t.config_after.burst_count = 0
            /\ t.config_before.burst_count = 0 =>
                   (t.burst_emitted = 0 /\ t.config_after.burst_count = 0)

\* C14 witness: a burst larger than the pool; fewer particles than requested
\* were emitted and the request is cleared
C14_Witness ==
    /\ Ticked
    /\ tick[1].config_before.burst_count > tick[1].config_before.max_particles
    /\ tick[1].burst_emitted > 0
    /\ tick[1].burst_emitted < tick[1].config_before.burst_count
    /\ tick[1].config_after.burst_count = 0
    /\ configs[tick[1].emitter].burst_count = 0

\* C15: the resize step of update keeps every alive particle: it leaves at
\* least as many slots as there are alive particles, the alive particles
\* are the same in number before and after it, and the slots it adds are
\* dead.
C15_ResizeKeepsAlive ==
    Ticked =>
        LET t == tick[1]
        IN  /\ Len(t.after_resize) >= AliveCount(t.before.particles)
            /\ AliveCount(t.after_resize) = AliveCount(t.before.particles)
            /\ \A k \in (Len(t.before.particles) + 1) .. Len(t.after_resize) :
                   ~t.after_resize[k].alive

DistanceSquared(p) == length_squared(VecSub(p.position, CamPos))

Occurrences(v, x) == Cardinality({k \in 1 .. Len(v) : v[k] = x})

SameParticles(v, w) ==
    /\ Len(v) = Len(w)
    /\ \A k \in 1 .. Len(v) : Occurrences(v, v[k]) = Occurrences(w, v[k])

\* C16: after every update the alive particles are exactly the first
\* alive_count slots, ordered by squared distance to the camera, farthest
\* first, and the slots hold the particles the simulate step left, permuted.
C16_SortedBackToFront ==
    Ticked =>
        LET pool == TickedPool
        IN  /\ pool.alive_count <= Len(pool.particles)
            /\ \A k \in 1 .. Len(pool.particles) :
                   pool.particles[k].alive <=> k <= pool.alive_count
            /\ \A k \in 1 .. (pool.alive_count - 1) :
                   DistanceSquared(pool.particles[k]) >=
                       DistanceSquared(pool.particles[k + 1])
            /\ SameParticles(pool.particles, tick[1].after_simulate)

\* C16 witness: the simulate step left a nearer particle in front of a
\* farther one and a dead slot in front of an alive one
C16_Witness ==
    /\ Ticked
    /\ TickedPool.alive_count >= 2
    /\ \E i, j \in 1 .. Len(tick[1].after_simulate) :
           /\ i < j
           /\ tick[1].after_simulate[i].alive /\ tick[1].after_simulate[j].alive
           /\ DistanceSquared(tick[1].after_simulate[i]) <
                  DistanceSquared(tick[1].after_simulate[j])
    /\ \E i, j \in 1 .. Len(tick[1].after_simulate) :
           /\ i < j
           /\ ~tick[1].after_simulate[i].alive /\ tick[1].after_simulate[j].alive
    /\ DistanceSquared(TickedPool.particles[1]) > DistanceSquared(TickedPool.particles[2])

\* C17: after every update vertex_count is 6 * alive_count, vertex_data is
\* max_particles * 54 floats long, its first 54 * alive_count floats are the
\* six corners (9 floats each) of the alive particles in slot order, and the
\* floats behind them are as they were.
C17_VertexBuffer ==
    Ticked =>
        LET pool == TickedPool
            t == tick[1]
            kept == ResizeWith(t.before.vertex_data, Len(pool.vertex_data), 0)
        IN  /\ pool.vertex_count = 6 * pool.alive_count
            /\ Len(pool.vertex_data) = t.config_after.max_particles * 54
            /\ 54 * pool.alive_count <= Len(pool.vertex_data)
            /\ \A j \in 1 .. pool.alive_count : \A c \in 1 .. 6 : \A f \in 1 .. 9 :
                   pool.vertex_data[((j - 1) * 6 + (c - 1)) * 9 + f] =
                       Corners(pool.particles[j], t.config_after, CamRight, CamUp)[c][f]
            /\ \A k \in (54 * pool.alive_count + 1) .. Len(pool.vertex_data) :
                   pool.vertex_data[k] = kept[k]

\* C17 witness: alive particles whose vertices fill a part of the buffer;
\* behind them it still holds a vertex of an earlier frame
C17_Witness ==
    /\ Ticked
    /\ TickedPool.alive_count >= 1
    /\ TickedPool.vertex_count = 6 * TickedPool.alive_count
    /\ \E k \in (TickedPool.alive_count * 54 + 1) .. Len(TickedPool.vertex_data) :
           TickedPool.vertex_data[k] # 0

\* C18: every pool is in the state its own update calls alone lead to,
\* whatever update calls on other pools ran in between.
C18_PoolsIndependent ==
    \A p \in 1 .. Len(pools) : pools[p] = solo[p].pool

\* ================================================ animation.rs: slerp_quat
\* slerp_quat over exact numbers, for the length of its result.  A number is
\* p + q * sqrt(3) with whole p and q, written <<p, q>>; a quaternion is
\* [x, y, z, w, d, s], its components the numbers x, y, z, w over
\* d * sqrt(s), where d is a positive whole number and s a number (1 unless
\* the quaternion came out of normalize).  Angles are whole multiples of
\* pi / 6, where sin and cos are numbers of this kind over 2.
SurdAdd(a, b) == <<a[1] + b[1], a[2] + b[2]>>
SurdMul(a, b) == <<a[1] * b[1] + 3 * a[2] * b[2], a[1] * b[2] + a[2] * b[1]>>
SurdTimes(a, k) == <<a[1] * k, a[2] * k>>
SurdOne == <<1, 0>>
SurdZero == <<0, 0>>

\* p against q * sqrt(3), both positive: 7/4 of q or more is above
\* (49/16 > 3), 5/3 of q or less is below (25/9 < 3), and between the two
\* the squares decide
SurdOutweighs(p, q) ==
    IF 4 * p >= 7 * q THEN TRUE
    ELSE IF 3 * p <= 5 * q THEN FALSE
    ELSE p * p > 3 * q * q

\* -1, 0 or 1: the sign of p + q * sqrt(3)
SurdSign(a) ==
    IF a[1] >= 0 /\ a[2] >= 0 THEN (IF a = SurdZero THEN 0 ELSE 1)
    ELSE IF a[1] <= 0 /\ a[2] <= 0 THEN -1
    ELSE IF a[1] > 0 THEN (IF SurdOutweighs(a[1], -a[2]) THEN 1 ELSE -1)
    ELSE (IF SurdOutweighs(-a[1], a[2]) THEN -1 ELSE 1)

Gcd3(a, b, c) == Gcd(Gcd(Abs(a), Abs(b)), Abs(c))

\* the number n over the whole d > 0, in lowest terms: [n, d]
Ratio(n, d) ==
    [n |-> <<n[1] \div Gcd3(n[1], n[2], d), n[2] \div Gcd3(n[1], n[2], d)>>,
     d |-> d \div Gcd3(n[1], n[2], d)]

\* the whole number all four components and d can be divided by
QuatGcd(x, y, z, w, d) ==
    Gcd(Gcd(Gcd3(x[1], x[2], y[1]), Gcd3(y[2], z[1], z[2])), Gcd3(w[1], w[2], d))

\* DQuat::from_xyzw for components over the whole d > 0, in lowest terms
QuatOver(x, y, z, w, d) ==
    [x |-> <<x[1] \div QuatGcd(x, y, z, w, d), x[2] \div QuatGcd(x, y, z, w, d)>>,
     y |-> <<y[1] \div QuatGcd(x, y, z, w, d), y[2] \div QuatGcd(x, y, z, w, d)>>,
     z |-> <<z[1] \div QuatGcd(x, y, z, w, d), z[2] \div QuatGcd(x, y, z, w, d)>>,
     w |-> <<w[1] \div QuatGcd(x, y, z, w, d), w[2] \div QuatGcd(x, y, z, w, d)>>,
     d |-> d \div QuatGcd(x, y, z, w, d),
     s |-> SurdOne]

QuatNeg(q) ==
    [q EXCEPT !.x = SurdTimes(q.x, -1), !.y = SurdTimes(q.y, -1),
              !.z = SurdTimes(q.z, -1), !.w = SurdTimes(q.w, -1)]

\* x^2 + y^2 + z^2 + w^2 of the components' numerators
SumOfSquares(q) ==
    SurdAdd(SurdAdd(SurdMul(q.x, q.x), SurdMul(q.y, q.y)),
            SurdAdd(SurdMul(q.z, q.z), SurdMul(q.w, q.w)))

\* DQuat::normalize: the components over their length; the length of a zero
\* quaternion is 0 and the result is not a number (s = 0)
QuatNormalize(q) == [q EXCEPT !.d = 1, !.s = SumOfSquares(q)]

\* a.x * b.x + a.y * b.y + a.z * b.z + a.w * b.w for quaternions with s = 1
QuatDot(a, b) ==
    Ratio(SurdAdd(SurdAdd(SurdMul(a.x, b.x), SurdMul(a.y, b.y)),
                  SurdAdd(SurdMul(a.z, b.z), SurdMul(a.w, b.w))),
          a.d * b.d)

\* dot < 0.0
DotNegative(dot) == SurdSign(dot.n) < 0

\* dot > 0.9995
DotNearOne(dot) ==
    SurdSign(<<10000 * dot.n[1] - 9995 * dot.d, 10000 * dot.n[2]>>) > 0

\* a + (b - a) * t, component by component, for the fraction t
QuatLerp(a, b, t) ==
    LET mix(ca, cb) ==
            SurdAdd(SurdTimes(ca, b.d * t[2]),
                    SurdTimes(SurdAdd(SurdTimes(cb, a.d), SurdTimes(ca, -b.d)), t[1]))
    IN  QuatOver(mix(a.x, b.x), mix(a.y, b.y), mix(a.z, b.z), mix(a.w, b.w),
                 a.d * b.d * t[2])

\* 2 * sin(k * pi / 6) for k in 0 .. 6
TwiceSin(k) ==
    IF k = 0 \/ k = 6 THEN SurdZero
    ELSE IF k = 1 \/ k = 5 THEN <<1, 0>>
    ELSE IF k = 2 \/ k = 4 THEN <<0, 1>>
    ELSE <<2, 0>>

\* dot is the cosine of a whole multiple of pi / 6 between pi / 6 and pi / 2
HasAngle(dot) ==
    dot \in {[n |-> <<0, 1>>, d |-> 2], [n |-> <<1, 0>>, d |-> 2], [n |-> <<0, 0>>, d |-> 1]}

\* f64::acos in units of pi / 6
acos(dot) ==
    IF dot = [n |-> <<0, 1>>, d |-> 2] THEN 1
    ELSE IF dot = [n |-> <<1, 0>>, d |-> 2] THEN 2
    ELSE 3

\* sin(part * pi / 6) / sin(theta * pi / 6): [n, d]
SinRatio(part, theta) ==
    LET num == TwiceSin(part)
        den == TwiceSin(theta)
        norm == den[1] * den[1] - 3 * den[2] * den[2]
        top == SurdMul(num, <<den[1], -den[2]>>)
    IN  IF norm > 0 THEN Ratio(top, norm) ELSE Ratio(SurdTimes(top, -1), -norm)

\* a * w0 + b * w1, component by component
QuatWeighted(a, w0, b, w1) ==
    LET mix(ca, cb) ==
            SurdAdd(SurdTimes(SurdMul(ca, w0.n), b.d * w1.d),
                    SurdTimes(SurdMul(cb, w1.n), a.d * w0.d))
    IN  QuatOver(mix(a.x, b.x), mix(a.y, b.y), mix(a.z, b.z), mix(a.w, b.w),
                 a.d * w0.d * b.d * w1.d)

\* slerp_quat past the shortest-path step: b is the second key as used,
\* dot the dot product as used
SlerpTowards(a, b, dot, t) ==
    IF DotNearOne(dot) THEN QuatNormalize(QuatLerp(a, b, t))
    ELSE QuatWeighted(a, SinRatio(((t[2] - t[1]) * acos(dot)) \div t[2], acos(dot)),
                      b, SinRatio((t[1] * acos(dot)) \div t[2], acos(dot)))

\* mutant: dot is made positive but b is used as it came
shortest_path_keeps_b(a, b, dot, t) ==
    IF DotNegative(dot)
    THEN SlerpTowards(a, b, [dot EXCEPT !.n = SurdTimes(dot.n, -1)], t)
    ELSE SlerpTowards(a, b, dot, t)

\* the shortest-path step of slerp_quat and the rest
shortest_path(a, b, dot, t) ==
    IF DotNegative(dot)
    THEN SlerpTowards(a, QuatNeg(b), [dot EXCEPT !.n = SurdTimes(dot.n, -1)], t)
    ELSE SlerpTowards(a, b, dot, t)

\* fn slerp_quat(a, b, t) over exact numbers
slerp_quat_exact(a, b, t) == shortest_path(a, b, QuatDot(a, b), t)

\* ---- slerp_quat harness
\* unit quaternions: the identity and its negative, half turns, turns by
\* pi / 3 and 2 pi / 3 about x, a turn by 2 pi / 3 about the diagonal, and a
\* turn about z so small that its dot product with the identity exceeds
\* 0.9995, each with its negative
UnitQuats ==
    LET base == {QuatOver(<<0, 0>>, <<0, 0>>, <<0, 0>>, <<1, 0>>, 1),
                 QuatOver(<<1, 0>>, <<0, 0>>, <<0, 0>>, <<0, 0>>, 1),
                 QuatOver(<<0, 0>>, <<1, 0>>, <<0, 0>>, <<0, 0>>, 1),
                 QuatOver(<<1, 0>>, <<0, 0>>, <<0, 0>>, <<0, 1>>, 2),
                 QuatOver(<<0, 1>>, <<0, 0>>, <<0, 0>>, <<1, 0>>, 2),
                 QuatOver(<<1, 0>>, <<1, 0>>, <<1, 0>>, <<1, 0>>, 2),
                 QuatOver(<<0, 0>>, <<0, 0>>, <<128, 0>>, <<4095, 0>>, 4097)}
    IN  base \cup {QuatNeg(q) : q \in base}

\* interpolation factors in [0, 1]
Factors == {<<0, 1>>, <<1, 3>>, <<1, 2>>, <<2, 3>>, <<1, 1>>}

\* the dot product as slerp_quat uses it
UsedDot(a, b) ==
    IF DotNegative(QuatDot(a, b))
    THEN [QuatDot(a, b) EXCEPT !.n = SurdTimes(QuatDot(a, b).n, -1)]
    ELSE QuatDot(a, b)

\* the arguments whose angles are whole multiples of pi / 6, so that acos
\* and sin are exact
Exact(a, b, t) ==
    \/ DotNearOne(UsedDot(a, b))
    \/ /\ HasAngle(UsedDot(a, b))
       /\ (t[1] * acos(UsedDot(a, b))) % t[2] = 0

SlerpInit ==
    /\ slerpA \in UnitQuats
    /\ slerpB \in UnitQuats
    /\ slerpT \in Factors
    /\ Exact(slerpA, slerpB, slerpT)
    /\ slerpResult = <<"pending">>
    /\ KfIdle /\ AppIdle /\ PoolIdle /\ LogIdle /\ HandleIdle

\* one call slerp_quat(a, b, t)
Slerp ==
    /\ slerpResult = <<"pending">>
    /\ slerpResult' = <<"returned", slerp_quat_exact(slerpA, slerpB, slerpT)>>
    /\ UNCHANGED <<slerpA, slerpB, slerpT>>
    /\ UNCHANGED <<kfVars, appVars, poolVars, logVars, handleVars>>

SlerpNext == Slerp

SlerpSpec == SlerpInit /\ [][SlerpNext]_vars

\* ---------------------------------------------------- slerp_quat: claims
\* x^2 + y^2 + z^2 + w^2 = 1 for q = components / (d * sqrt(s))
UnitNorm(q) ==
    /\ q.s # SurdZero
    /\ SumOfSquares(q) = SurdTimes(q.s, q.d * q.d)

\* C19: for unit quaternions a and b and a factor t in [0, 1], slerp_quat
\* returns a quaternion of norm 1: in the spherical branch, in the
\* normalised linear branch (dot > 0.9995) and when b was negated
\* (dot < 0).
C19_SlerpUnitNorm ==
    (slerpResult[1] = "returned" /\ UnitNorm(slerpA) /\ UnitNorm(slerpB)) =>
        UnitNorm(slerpResult[2])

\* C19 witness: the spherical branch after b was negated, strictly between
\* the keys; the result is a unit quaternion that is neither key
C19_Witness ==
    /\ slerpResult[1] = "returned"
    /\ UnitNorm(slerpA) /\ UnitNorm(slerpB)
    /\ DotNegative(QuatDot(slerpA, slerpB))
    /\ ~DotNearOne(UsedDot(slerpA, slerpB))
    /\ slerpT \in {<<1, 3>>, <<1, 2>>, <<2, 3>>}
    /\ UnitNorm(slerpResult[2])
    /\ slerpResult[2] \notin {slerpA, slerpB, QuatNeg(slerpB)}

\* ======================================================= state.rs: LogBuffer
\* A LogBuffer is [lines, scroll_offset, auto_scroll, max_lines]; a LogLine
\* is [timestamp, text, is_stderr].
saturating_sub(a, b) == IF a >= b THEN a - b ELSE 0

\* LogBuffer::new
LogBufferNew(m) ==
    [lines |-> <<>>, scroll_offset |-> 0, auto_scroll |-> TRUE, max_lines |-> m]

\* LogBuffer::scroll_to_bottom
scroll_to_bottom(b) ==
    [b EXCEPT !.scroll_offset = saturating_sub(Len(b.lines), 1)]

\* Vec::remove(0): the rest moves down by one (an empty Vec panics: no
\* LogBuffer here has max_lines = 0)
RemoveFirst(s) == SubSeq(s, 2, Len(s))

\* push once the full check is done: the line is appended and the view
\* follows it when auto_scroll is on
PushLine(b, line) ==
    IF b.auto_scroll
    THEN scroll_to_bottom([b EXCEPT !.lines = Append(b.lines, line)])
    ELSE [b EXCEPT !.lines = Append(b.lines, line)]

\* mutant: the buffer is full only when it holds more than max_lines
push_evicts_late(b, text, is_stderr, now) ==
    IF Len(b.lines) > b.max_lines
    THEN PushLine([b EXCEPT !.lines = RemoveFirst(b.lines),
                            !.scroll_offset = saturating_sub(b.scroll_offset, 1)],
                  [timestamp |-> now, text |-> text, is_stderr |-> is_stderr])
    ELSE PushLine(b, [timestamp |-> now, text |-> text, is_stderr |-> is_stderr])

\* LogBuffer::push; now is what chrono::Local::now() returns
push(b, text, is_stderr, now) ==
    IF Len(b.lines) >= b.max_lines
    THEN PushLine([b EXCEPT !.lines = RemoveFirst(b.lines),
                            !.scroll_offset = saturating_sub(b.scroll_offset, 1)],
                  [timestamp |-> now, text |-> text, is_stderr |-> is_stderr])
    ELSE PushLine(b, [timestamp |-> now, text |-> text, is_stderr |-> is_stderr])

\* LogBuffer::clear
clear(b) == [b EXCEPT !.lines = <<>>, !.scroll_offset = 0]

\* LogBuffer::scroll_up
scroll_up(b, amount) ==
    [b EXCEPT !.scroll_offset = saturating_sub(b.scroll_offset, amount),
              !.auto_scroll = FALSE]

\* mutant: scrolling down switches auto_scroll on wherever it ends
scroll_down_always_follows(b, amount) ==
    LET offset == Min(b.scroll_offset + amount, saturating_sub(Len(b.lines), 1))
    IN  [b EXCEPT !.scroll_offset = offset, !.auto_scroll = TRUE]

\* LogBuffer::scroll_down
scroll_down(b, amount) ==
    LET offset == Min(b.scroll_offset + amount, saturating_sub(Len(b.lines), 1))
    IN  [b EXCEPT !.scroll_offset = offset,
                  !.auto_scroll = IF offset >= saturating_sub(Len(b.lines), 1)
                                  THEN TRUE ELSE b.auto_scroll]

\* LogBuffer::scroll_to_top
scroll_to_top(b) == [b EXCEPT !.scroll_offset = 0, !.auto_scroll = FALSE]

\* ---- LogBuffer runs
\* largest max_lines of a buffer
MaxLines == 3
\* most lines pushed between two clears
MaxPushes == 4
\* texts of the pushed lines
Texts == {"a", "b"}
\* what the clock reads at a push
Clock == {1, 2}
\* scroll amounts
Amounts == {1, MaxLines}

\* the buffer held in the variables
Buffer ==
    [lines |-> lines, scroll_offset |-> scroll_offset,
     auto_scroll |-> auto_scroll, max_lines |-> max_lines]

\* the variables take the buffer b
BufferBecomes(b) ==
    /\ lines' = b.lines
    /\ scroll_offset' = b.scroll_offset
    /\ auto_scroll' = b.auto_scroll
    /\ max_lines' = b.max_lines

\* LogBuffer::new(m) with m >= 1; pushed is the lines pushed since then or
\* since the last clear
LogInit ==
    /\ \E m \in 1 .. MaxLines :
          /\ lines = LogBufferNew(m).lines
          /\ scroll_offset = LogBufferNew(m).scroll_offset
          /\ auto_scroll = LogBufferNew(m).auto_scroll
          /\ max_lines = LogBufferNew(m).max_lines
    /\ pushed = <<>>
    /\ KfIdle /\ AppIdle /\ PoolIdle /\ SlerpIdle /\ HandleIdle

Push(text, is_stderr, now) ==
    /\ Len(pushed) < MaxPushes
    /\ BufferBecomes(push(Buffer, text, is_stderr, now))
    /\ pushed' = Append(pushed, [timestamp |-> now, text |-> text, is_stderr |-> is_stderr])
    /\ UNCHANGED <<kfVars, appVars, poolVars, slerpVars, handleVars>>

Clear ==
    /\ BufferBecomes(clear(Buffer))
    /\ pushed' = <<>>
    /\ UNCHANGED <<kfVars, appVars, poolVars, slerpVars, handleVars>>

ScrollUp(amount) ==
    /\ BufferBecomes(scroll_up(Buffer, amount))
    /\ UNCHANGED <<pushed, kfVars, appVars, poolVars, slerpVars, handleVars>>

ScrollDown(amount) ==
    /\ BufferBecomes(scroll_down(Buffer, amount))
    /\ UNCHANGED <<pushed, kfVars, appVars, poolVars, slerpVars, handleVars>>

ScrollToTop ==
    /\ BufferBecomes(scroll_to_top(Buffer))
    /\ UNCHANGED <<pushed, kfVars, appVars, poolVars, slerpVars, handleVars>>

ScrollToBottom ==
    /\ BufferBecomes(scroll_to_bottom(Buffer))
    /\ UNCHANGED <<pushed, kfVars, appVars, poolVars, slerpVars, handleVars>>

LogNext ==
    \/ \E text \in Texts, is_stderr \in BOOLEAN, now \in Clock : Push(text, is_stderr, now)
    \/ Clear
    \/ \E amount \in Amounts : ScrollUp(amount)
    \/ \E amount \in Amounts : ScrollDown(amount)
    \/ ScrollToTop
    \/ ScrollToBottom

LogSpec == LogInit /\ [][LogNext]_vars

\* ------------------------------------------------------ LogBuffer: claims
\* the last n elements of s, in order
LastOf(s, n) == SubSeq(s, Len(s) - n + 1, Len(s))

\* C20: a LogBuffer with max_lines = M >= 1 never holds more than M lines,
\* and what it holds is the most recent M pushes (all of them while fewer
\* than M were pushed) in push order: a push into a full buffer evicted
\* exactly the oldest line.
C20_KeepsMostRecent ==
    /\ Len(lines) <= max_lines
    /\ lines = LastOf(pushed, Min(max_lines, Len(pushed)))

\* C20 witness: a buffer of two or more lines that has evicted at least two
\* lines and holds exactly the last max_lines pushes
C20_Witness ==
    /\ max_lines >= 2
    /\ Len(pushed) >= max_lines + 2
    /\ Len(lines) = max_lines
    /\ lines = LastOf(pushed, max_lines)
    /\ lines # SubSeq(pushed, 1, max_lines)

\* ===================================================== handle.rs: HandleStore
\* A HandleStore's items (HashMap<u64, T>) is a set of pairs <<handle, item>>
\* with one pair per handle.
\* mutant: the counter is read and not advanced
fetch_add_reads(next) == [handle |-> next, next |-> next]

\* AtomicU64::fetch_add(1, Relaxed): one indivisible read-modify-write; the
\* value read is returned.  The counter would wrap at 2^64, beyond any run.
fetch_add(next) == [handle |-> next, next |-> next + 1]

\* HandleStore::new
HandleStoreNew == {}

\* HashMap::insert
ItemsInsert(items, handle, item) ==
    {p \in items : p[1] # handle} \cup {<<handle, item>>}

\* HandleStore::get / HashMap::get
HandleGet(items, handle) ==
    IF \E p \in items : p[1] = handle
    THEN Some((CHOOSE p \in items : p[1] = handle)[2])
    ELSE None

\* HashMap::remove: what is left (the item returned is HandleGet's)
ItemsRemove(items, handle) == {p \in items : p[1] # handle}

\* ---- handle store runs
\* threads, each with a HandleStore of its own
NumThreads == 2
\* handles the counter gives out in a run
MaxHandles == 3
\* stored items
Items == {"a"}
\* handles a caller may pass: 0, every handle a run can issue, and one more
AskedHandles == 0 .. MaxHandles + 1

\* a thread outside insert
NoCall == [at |-> "returned", handle |-> 0, item |-> None]

\* the handle was never returned by an insert, or was removed since
Absent(handle) ==
    \/ \A k \in 1 .. Len(issued) : issued[k] # handle
    \/ handle \in removed

HandleInit ==
    /\ NEXT_HANDLE = 1
    /\ stores = [t \in 1 .. NumThreads |-> HandleStoreNew]
    /\ calls = [t \in 1 .. NumThreads |-> NoCall]
    /\ lookup = <<>>
    /\ issued = <<>>
    /\ removed = {}
    /\ KfIdle /\ AppIdle /\ PoolIdle /\ LogIdle /\ SlerpIdle

\* insert, first half: NEXT_HANDLE.fetch_add(1, Relaxed)
InsertFetch(t, item) ==
    /\ calls[t].at = "returned"
    /\ NEXT_HANDLE <= MaxHandles
    /\ NEXT_HANDLE' = fetch_add(NEXT_HANDLE).next
    /\ calls' = [calls EXCEPT ![t] =
                    [at |-> "fetched", handle |-> fetch_add(NEXT_HANDLE).handle,
                     item |-> Some(item)]]
    /\ UNCHANGED <<stores, lookup, issued, removed>>
    /\ UNCHANGED <<kfVars, appVars, poolVars, logVars, slerpVars>>

\* insert, second half: self.items.insert(handle, item); handle
InsertStore(t) ==
    /\ calls[t].at = "fetched"
    /\ stores' = [stores EXCEPT ![t] =
                     ItemsInsert(stores[t], calls[t].handle, calls[t].item[1])]
    /\ calls' = [calls EXCEPT ![t] = NoCall]
    /\ issued' = Append(issued, calls[t].handle)
    /\ UNCHANGED <<NEXT_HANDLE, lookup, removed>>
    /\ UNCHANGED <<kfVars, appVars, poolVars, logVars, slerpVars>>

\* HandleStore::get
Get(t, handle) ==
    /\ calls[t].at = "returned"
    /\ lookup' = <<[op |-> "get", thread |-> t, handle |-> handle,
                    result |-> HandleGet(stores[t], handle),
                    absent |-> Absent(handle)]>>
    /\ UNCHANGED <<NEXT_HANDLE, stores, calls, issued, removed>>
    /\ UNCHANGED <<kfVars, appVars, poolVars, logVars, slerpVars>>

\* HandleStore::remove
Remove(t, handle) ==
    /\ calls[t].at = "returned"
    /\ lookup' = <<[op |-> "remove", thread |-> t, handle |-> handle,
                    result |-> HandleGet(stores[t], handle),
                    absent |-> Absent(handle)]>>
    /\ stores' = [stores EXCEPT ![t] = ItemsRemove(stores[t], handle)]
    /\ removed' = IF IsSome(HandleGet(stores[t], handle))
                  THEN removed \cup {handle} ELSE removed
    /\ UNCHANGED <<NEXT_HANDLE, calls, issued>>
    /\ UNCHANGED <<kfVars, appVars, poolVars, logVars, slerpVars>>

\* HandleStore::clear
HandleClear(t) ==
    /\ calls[t].at = "returned"
    /\ stores[t] # {}
    /\ stores' = [stores EXCEPT ![t] = {}]
    /\ removed' = removed \cup {p[1] : p \in stores[t]}
    /\ UNCHANGED <<NEXT_HANDLE, calls, lookup, issued>>
    /\ UNCHANGED <<kfVars, appVars, poolVars, logVars, slerpVars>>

HandleNext ==
    \E t \in 1 .. NumThreads :
        \/ \E item \in Items : InsertFetch(t, item)
        \/ InsertStore(t)
        \/ \E handle \in AskedHandles : Get(t, handle)
        \/ \E handle \in AskedHandles : Remove(t, handle)
        \/ HandleClear(t)

HandleSpec == HandleInit /\ [][HandleNext]_vars

\* ---------------------------------------------------- HandleStore: claims
\* C21: every handle insert returns is non-zero and differs from every
\* handle returned before by any store, across threads and after removes
\* and clears; get and remove of a handle that was removed or never issued
\* return None.
C21_HandlesUnique ==
    /\ \A k \in 1 .. Len(issued) : issued[k] # 0
    /\ \A j, k \in 1 .. Len(issued) : j # k => issued[j] # issued[k]
    /\ \A t \in 1 .. NumThreads :
          (calls[t].at = "fetched") =>
              \A k \in 1 .. Len(issued) : issued[k] # calls[t].handle
    /\ (lookup # <<>> /\ lookup[1].absent) => lookup[1].result = None

\* C21 witness: both stores hold items, a handle was issued after another
\* was removed, and a get of the removed handle came back None
C21_Witness ==
    /\ Len(issued) >= 3
    /\ lookup # <<>>
    /\ lookup[1].op = "get"
    /\ lookup[1].handle \in removed
    /\ lookup[1].handle < issued[Len(issued)]
    /\ lookup[1].result = None
    /\ \A t \in 1 .. NumThreads : stores[t] # {}

\* ------------------------------------- keyframe search: interior queries
\* the value of key k of a channel whose keys all differ
KeyValue(k) == Vec3(10 * k, -k, 7)

\* C22: for a strictly increasing timeline and a query time strictly
\* between its first and last key, the search returns adjacent indices
\* lo, lo + 1 with times[lo] <= time < times[lo + 1] and the factor
\* (time - times[lo]) / (times[lo + 1] - times[lo]); a query at an interior
\* key k returns (k, k + 1) with factor 0, and Linear interpolation with
\* that result gives key k's value.
C22_TightInterval ==
    (/\ KfReturned
     /\ Len(kfTimes) >= 2
     /\ StrictlyIncreasing(kfTimes)
     /\ At(kfTimes, 0) < kfTime
     /\ kfTime < At(kfTimes, Len(kfTimes) - 1)) =>
        /\ IsSome(KfValue)
        /\ LET lo == Unwrap(KfValue)[1]
               hi == Unwrap(KfValue)[2]
               factor == Unwrap(KfValue)[3]
           IN  /\ hi = lo + 1
               /\ At(kfTimes, lo) <= kfTime /\ kfTime < At(kfTimes, hi)
               /\ factor[1] * (At(kfTimes, hi) - At(kfTimes, lo)) =
                      factor[2] * (kfTime - At(kfTimes, lo))
               /\ \A k \in 1 .. (Len(kfTimes) - 2) :
                      At(kfTimes, k) = kfTime =>
                          /\ lo = k /\ hi = k + 1 /\ factor = FZero
                          /\ lerp_vec3(KeyValue(lo), KeyValue(hi), factor) = KeyValue(k)

\* C22 witness: a query at the interior key of a three-key timeline came
\* back as that key's interval with factor 0
C22_Witness ==
    /\ KfReturned
    /\ Len(kfTimes) = 3
    /\ StrictlyIncreasing(kfTimes)
    /\ kfTime = At(kfTimes, 1)
    /\ KfValue = Some(<<1, 2, FZero>>)

\* ------------------------------------ keyframe search: malformed timelines
\* how often the loop `while lo < hi - 1` runs, counted up to fuel + 1
RECURSIVE LoopIterations(_, _, _, _, _)
LoopIterations(times, time, lo, hi, fuel) ==
    IF fuel = 0 THEN (IF lo < hi - 1 THEN 1 ELSE 0)
    ELSE IF lo < hi - 1
    THEN 1 + (IF At(times, (lo + hi) \div 2) <= time
              THEN LoopIterations(times, time, (lo + hi) \div 2, hi, fuel - 1)
              ELSE LoopIterations(times, time, lo, (lo + hi) \div 2, fuel - 1))
    ELSE 0

\* C23: for any non-empty timeline, sorted or not, with or without equal
\* times, and any query time, the search loop ends within len(times) rounds
\* and the result is Some((i0, i1, f)) with i0 <= i1 < len(times) and
\* 0 <= f <= 1.
C23_RobustToMalformed ==
    (KfReturned /\ Len(kfTimes) >= 1) =>
        /\ LoopIterations(kfTimes, kfTime, 0, Len(kfTimes) - 1, Len(kfTimes))
               <= Len(kfTimes)
        /\ IsSome(KfValue)
        /\ 0 <= Unwrap(KfValue)[1]
        /\ Unwrap(KfValue)[1] <= Unwrap(KfValue)[2]
        /\ Unwrap(KfValue)[2] < Len(kfTimes)
        /\ FInUnit(Unwrap(KfValue)[3])

\* C23 witness: an unsorted timeline with a repeated time, queried inside
\* its first-to-last range, went through the loop and gave a proper factor
C23_Witness ==
    /\ KfReturned
    /\ Len(kfTimes) = 3
    /\ ~StrictlyIncreasing(kfTimes)
    /\ At(kfTimes, 1) > At(kfTimes, 2)
    /\ At(kfTimes, 0) < kfTime /\ kfTime < At(kfTimes, 2)
    /\ IsSome(KfValue)
    /\ Unwrap(KfValue)[1] < Unwrap(KfValue)[2]
    /\ Unwrap(KfValue)[3] # FZero

\* ----------------------------------------------- skinning: buffers, panics
\* the skeleton's owning entity exists
HasOwner(skel) == skel.entity_index < Len(entities)

\* C24: after update_skinned_meshes every skeleton whose owner exists has
\* exactly min(number of bones, MAX_BONES) bone matrices, and entry i is the
\* one computed for bone i: a buffer left from a longer or shorter bone
\* list is cut or padded at its tail.
C24_OneMatrixPerBone ==
    pc = "returned" =>
        \A s \in Indices(skeletons) :
            HasOwner(At(skeletons, s)) =>
                /\ Len(At(skeletons, s).bone_matrices) =
                       Min(Len(At(skeletons, s).bone_entity_indices), MAX_BONES)
                /\ \A i \in Indices(At(skeletons, s).bone_matrices) :
                       At(At(skeletons, s).bone_matrices, i) =
                           BoneMatrix(entities, At(skeletons, s),
                                      Inverse(At(entities, At(skeletons, s).entity_index).world_transform),
                                      i)

\* C24 witness: of two skeletons with owners, one came with more matrices
\* than it has bones and one with fewer; each now has one per bone
C24_Witness ==
    /\ pc = "returned"
    /\ Len(skeletons) = Len(LoadedSkeletons("stale"))
    /\ \E s, u \in Indices(skeletons) :
          /\ HasOwner(At(skeletons, s)) /\ HasOwner(At(skeletons, u))
          /\ At(skeletons, s).bone_entity_indices =
                 At(LoadedSkeletons("stale"), s).bone_entity_indices
          /\ At(skeletons, u).bone_entity_indices =
                 At(LoadedSkeletons("stale"), u).bone_entity_indices
          /\ Len(At(LoadedSkeletons("stale"), s).bone_matrices) >
                 Len(At(skeletons, s).bone_entity_indices)
          /\ Len(At(LoadedSkeletons("stale"), u).bone_matrices) <
                 Len(At(skeletons, u).bone_entity_indices)
          /\ Len(At(skeletons, s).bone_matrices) =
                 Len(At(skeletons, s).bone_entity_indices)
          /\ Len(At(skeletons, u).bone_matrices) =
                 Len(At(skeletons, u).bone_entity_indices)
          /\ At(At(skeletons, s).bone_matrices, 0) #
                 At(At(LoadedSkeletons("stale"), s).bone_matrices, 0)

\* C25: update_skinned_meshes never panics, whatever the scene: a missing
\* owner, a missing bone entity or an inverse bind list shorter than the
\* bone list is passed over and the rest is evaluated.
C25_SkinningNeverPanics == pc # "skin_panic"

\* the skeletons whose owner exists, in order
WithOwner(skels) == SelectSeq(skels, HasOwner)

\* C26: update_skinned_meshes leaves a skeleton whose entity_index is not
\* below the number of entities as it was, bone_matrices included, and goes
\* on to the other skeletons: they come out as from a call on the scene
\* without the ownerless skeletons.
C26_MissingOwnerSkipped ==
    [][(pc = "resolved" /\ pc' \in {"returned", "skin_panic"}) =>
          /\ Len(skeletons') = Len(skeletons)
          /\ \A s \in Indices(skeletons) :
                 ~HasOwner(At(skeletons, s)) => At(skeletons', s) = At(skeletons, s)
          /\ WithOwner(skeletons') =
                 update_skinned_meshes(WithOwner(skeletons), entities).skeletons
          /\ (pc' = "skin_panic") =
                 update_skinned_meshes(WithOwner(skeletons), entities).panicked]_vars

\* C26 witness: the call returned; a skeleton without an owner still holds
\* the matrix it came with, and a skeleton after it has its bones computed
C26_Witness ==
    /\ pc = "returned"
    /\ \E s, u \in Indices(skeletons) :
          /\ s < u
          /\ ~HasOwner(At(skeletons, s))
          /\ At(skeletons, s).bone_matrices = <<BindA>>
          /\ HasOwner(At(skeletons, u))
          /\ Len(At(skeletons, u).bone_matrices) = 3
          /\ At(At(skeletons, u).bone_matrices, 0) # Mat4Identity

\* C27: after every update with emission_rate >= 0 and dt >= 0 the
\* accumulator holds only the fractional remainder, 0 <= emit_accumulator
\* < 1: every whole unit became a particle in that tick and no backlog is
\* carried into a later one.
C27_AccumulatorFractional ==
    (Ticked /\ tick[1].config_before.emission_rate >= 0 /\ tick[1].delta >= 0) =>
        /\ 0 <= TickedPool.emit_accumulator
        /\ TickedPool.emit_accumulator < AccOne

\* C27 as the code has it: after every update with emission_rate >= 0 and
\* dt >= 0 the accumulator is what it was plus emission_rate * dt minus one
\* unit per particle the continuous step emitted; it is never negative, and
\* it holds a whole unit or more only when that step stopped at a pool
\* without a dead slot, the units not emitted staying for later ticks.
C27_AccumulatorKeepsUnemitted ==
    (Ticked /\ tick[1].config_before.emission_rate >= 0 /\ tick[1].delta >= 0) =>
        /\ TickedPool.emit_accumulator =
               tick[1].before.emit_accumulator
                   + tick[1].config_before.emission_rate * tick[1].delta
                   - AccOne * tick[1].cont_emitted
        /\ 0 <= TickedPool.emit_accumulator
        /\ TickedPool.emit_accumulator >= AccOne =>
               AliveCount(tick[1].after_emit) = Len(tick[1].after_emit)

\* C27 witness: an update emitted into every free slot and returned with a
\* whole unit still in the accumulator
C27_Witness ==
    /\ Ticked
    /\ tick[1].config_before.emission_rate > 0
    /\ tick[1].cont_emitted >= 1
    /\ AliveCount(tick[1].after_emit) = Len(tick[1].after_emit)
    /\ TickedPool.emit_accumulator >= AccOne

\* ------------------------------------- particle emitters: direct resizes
\* one call pools[1].resize(m) from the host, outside update
ResizePool(m) ==
    /\ ticks < MaxTicks
    /\ Len(pools[1].particles) # m
    /\ pools' = [pools EXCEPT ![1] = resize(pools[1], m)]
    /\ solo' = [solo EXCEPT ![1].pool = resize(solo[1].pool, m)]
    /\ UNCHANGED <<configs, RAND_STATE, tick, ticks, frame_delta>>
    /\ UNCHANGED <<kfVars, appVars, logVars, slerpVars, handleVars>>

\* new, then resize and update in any order, the config edited in between
PoolOpsNext ==
    \/ UpdatePool(1, frame_delta)
    \/ \E n \in BurstCounts : SetBurst(n)
    \/ \E m \in MaxParticleEdits : SetMaxParticles(m)
    \/ \E m \in MaxParticleEdits : ResizePool(m)

PoolOpsSpec == PoolInit /\ [][PoolOpsNext]_vars

\* C28: in every state reached through new, resize and update in any order
\* alive_count is the number of slots whose alive flag is set, and it is at
\* most the number of slots.
C28_AliveCountExact ==
    \A p \in 1 .. Len(pools) :
        /\ pools[p].alive_count = AliveCount(pools[p].particles)
        /\ pools[p].alive_count <= Len(pools[p].particles)

\* ------------------------------------------------ animation.rs: playback
\* A scene whose clocks are driven by update_animations alone, frame after
\* frame, with no bound on the number of frames: the clocks never leave
\* [0, duration], so the state space is finite without one.

\* longest clip of the playback scenes
MaxDuration == 5

PlayConfigs ==
    [duration : 3 .. MaxDuration, looping : BOOLEAN, speed : {1, 2},
     side_looping : BOOLEAN]

\* a well-formed clip with one channel
PlayClip(name, duration, channel) ==
    [name |-> name, duration |-> duration, channels |-> <<channel>>]

\* two playing states; the first clip's length, both looping flags and the
\* first speed are the scene file's
PlayAnimations(cfg) ==
    <<[clips |-> <<PlayClip("main", cfg.duration, MoveLeaf)>>,
       active_clip |-> 0, current_time |-> 0, playing |-> TRUE,
       looping |-> cfg.looping, speed |-> cfg.speed],
      [clips |-> <<PlayClip("side", 2, TurnRoot)>>,
       active_clip |-> 0, current_time |-> 0, playing |-> TRUE,
       looping |-> cfg.side_looping, speed |-> 1]>>

PlayInit ==
    /\ KfIdle
    /\ PoolIdle /\ LogIdle /\ SlerpIdle /\ HandleIdle
    /\ \E cfg \in PlayConfigs :
          /\ entities = LoadedEntities(ChainParents)
          /\ animations = PlayAnimations(cfg)
    /\ skeletons = <<>>
    /\ input = [mouse_dx |-> 0, mouse_dy |-> 0]
    /\ last_time = 0
    /\ pc = "ready"
    /\ dt = 0
    /\ pre = [animations |-> <<>>, entities |-> <<>>]
    /\ writes = <<>>

\* one call update_animations(&mut scene, dt) with dt > 0
PlayTick(delta) ==
    /\ pc = "ready"
    /\ \E r \in {update_animations(animations, entities, delta)} :
          /\ animations' = r.animations
          /\ entities' = r.entities
          /\ writes' = r.writes
          /\ pc' = IF r.panicked THEN "anim_panic" ELSE "ready"
    /\ dt' = delta
    /\ pre' = [animations |-> animations, entities |-> entities]
    /\ UNCHANGED <<skeletons, input, last_time>>
    /\ UNCHANGED <<kfVars, poolVars, logVars, slerpVars, handleVars>>

PlayNext == \E delta \in 1 .. MaxStep : PlayTick(delta)

\* the host calls the frame callback again and again: a frame that can be
\* run is run
PlaySpec == PlayInit /\ [][PlayNext]_vars /\ WF_vars(PlayNext)

\* state a is what the claim starts from
PlayingOnce(a) ==
    LET anim_state == At(animations, a)
    IN  /\ anim_state.playing
        /\ ~anim_state.looping
        /\ HasValidClip(anim_state)
        /\ anim_state.speed > 0

\* state a has come to rest at the end of its clip
AtRest(a) ==
    LET anim_state == At(animations, a)
    IN  /\ ~anim_state.playing
        /\ anim_state.current_time = ActiveDuration(anim_state)

\* C29: a playing, non-looping state with a valid active clip and speed > 0
\* eventually stops under repeated update_animations calls with dt > 0: from
\* some tick on playing is false and current_time equals the clip's duration,
\* and both stay so on every later tick.
C29_EventuallyStops ==
    \A a \in 0 .. 1 : [](PlayingOnce(a) => <>[]AtRest(a))

\* a tick has just stopped state 0 at the end of its clip
C29_Witness ==
    /\ dt > 0
    /\ pre.animations # <<>>
    /\ At(pre.animations, 0).playing
    /\ ~At(pre.animations, 0).looping
    /\ At(pre.animations, 0).speed > 0
    /\ AtRest(0)

\* ------------------------------------------------ LogBuffer: scroll claims
\* index of the last line, 0 for an empty buffer
LastLine == IF Len(lines) >= 1 THEN Len(lines) - 1 ELSE 0

\* the view is on a line of the buffer, and on the last one while following
ScrollInRange ==
    /\ scroll_offset <= LastLine
    /\ auto_scroll => scroll_offset = LastLine

\* what the scroll operations do to auto_scroll
ScrollSwitches ==
    /\ (\E amount \in Amounts : ScrollUp(amount)) => ~auto_scroll'
    /\ ScrollToTop => ~auto_scroll'
    /\ (\E amount \in Amounts : ScrollDown(amount)) =>
           (auto_scroll' <=> scroll_offset' = LastLine')

\* C30: in every state reachable through push, clear, scroll_up, scroll_down,
\* scroll_to_top and scroll_to_bottom, scroll_offset is at most
\* max(number of lines - 1, 0) and equals it whenever auto_scroll is true;
\* scroll_up and scroll_to_top switch auto_scroll off, and scroll_down
\* switches it on exactly when it reaches the last line.
C30_ScrollInvariants == []ScrollInRange /\ [][ScrollSwitches]_vars

\* C30 witness: a full buffer that has evicted a line, scrolled to a line
\* strictly between the first and the last with auto_scroll off
C30_Witness ==
    /\ Len(lines) = MaxLines
    /\ Len(pushed) > max_lines
    /\ ~auto_scroll
    /\ 0 < scroll_offset
    /\ scroll_offset < LastLine

====
